---- MODULE Spec2Model ----
(***************************************************************************)
(* ProviderClient (provider_client.go): the token store, the               *)
(* reauthentication single-flight (reauthlock / reauthFuture) and the      *)
(* request executor doRequest with its retry hooks.                        *)
(*                                                                         *)
(* Each goroutine p runs one call: Request, or Reauthenticate directly.    *)
(* A critical section under reauthmut or mut is one action.  The steps of  *)
(* doRequest between two accesses to shared state (dispatch, status        *)
(* classification, hook call) are one action, Do.                          *)
(***************************************************************************)
EXTENDS Naturals, Integers, Sequences, FiniteSets, TLC

\* ---------------------------------------------------------------- bounds
NumProcs == 2               \* goroutines sharing the client in Spec
MaxRetryNil == 2            \* times RetryFunc answers nil within one call
MaxCeiling == 2             \* largest explicit MaxBackoffRetries tried
BodyLen == 2                \* bytes in the stream given as RawBody

\* ------------------------------------------------------ program constants
DefaultMaxBackoffRetries == 60
StatusOK == 200
StatusCreated == 201
StatusAccepted == 202
StatusNoContent == 204
StatusUnauthorized == 401
StatusTooManyRequests == 429
StatusSlowDown == 498
StatusServerError == 500    \* stands for every other unexpected status
TransportError == 0         \* HTTPClient.Do returned err != nil, no status

Procs == 1..NumProcs
NoToken == 0                \* the empty string ""
StaleToken == 1             \* the token the client starts with
NoFuture == 0               \* a nil *reauthFuture
NilAuthResult == -1         \* a nil AuthResult
BadAuthResult == -2         \* an AuthResult whose ExtractTokenID fails
Unlocked == 0               \* no goroutine holds the write lock
Locks == {"client", "tac"}  \* client.mut and the mut of a second client

VARIABLES
    \* ProviderClient fields
    TokenID, authResult, ReauthFunc, RetryBackoffFunc, RetryFunc,
    MaxBackoffRetries, Throwaway, useTokenLock,
    \* reauthlock.ongoing and the reauthFuture objects installed so far
    ongoing, futures,
    \* RequestOpts: JSONResponse != nil, what JSONBody and RawBody hold,
    \* KeepResponseBody, MoreHeaders and OmitHeaders
    JSONResponse, JSONBody, RawBody, KeepResponseBody, MoreHeaders, OmitHeaders,
    \* the method of the request and RequestOpts.OkCodes
    method, OkCodes,
    \* the environment: what a dispatch can be answered with, and whether
    \* the JSON value of a response body can be, or fail to be, its end
    server, bodyEnds,
    \* per goroutine: where it is, the call it runs, and the locals of
    \* doRequest, AuthenticatedHeaders and Reauthenticate
    pc, op, state, prereqtok, previousToken, hdrOngoing, future, myOngoing,
    err, respErr, nested, result, ctxDone,
    \* per goroutine: the read position of the RawBody stream, the header
    \* of the request being built or sent, and what has become of the
    \* response bodies obtained
    offset, reqHeader, bodies,
    \* the token locks (client.mut, and the one of a second client), who
    \* holds them, the token store of the second client, and per goroutine
    \* the store operation it runs
    mutW, mutR, tacMut, tacTokenID, tacAuthResult, recv, arg, seen,
    \* history: what each call did, the invocations of ReauthFunc, and for
    \* every installed future what its owner saw, decided and produced
    calls, reauthFuncCalls, attempts

configVars == <<ReauthFunc, RetryBackoffFunc, RetryFunc, MaxBackoffRetries,
                Throwaway, useTokenLock, JSONResponse, JSONBody, RawBody,
                KeepResponseBody, MoreHeaders, OmitHeaders, method, OkCodes,
                server, bodyEnds>>
requestVars == <<offset, reqHeader, bodies>>
callVars == <<state, prereqtok, previousToken, hdrOngoing, future, myOngoing,
              err, respErr, nested, ctxDone, calls>>
lockVars == <<mutW, mutR, tacMut, tacTokenID, tacAuthResult, recv, arg, seen>>
storeVars == <<TokenID, authResult>>
reauthVars == <<ongoing, futures, attempts, reauthFuncCalls>>
vars == <<TokenID, authResult, ReauthFunc, RetryBackoffFunc, RetryFunc,
          MaxBackoffRetries, Throwaway, useTokenLock, ongoing, futures,
          JSONResponse, server, pc, op, state, prereqtok, previousToken,
          hdrOngoing, future, myOngoing, err, respErr, nested, result, ctxDone,
          calls, reauthFuncCalls, attempts, JSONBody, RawBody,
          KeepResponseBody, MoreHeaders, OmitHeaders, offset, reqHeader,
          bodies, method, OkCodes, bodyEnds, mutW, mutR, tacMut, tacTokenID, tacAuthResult, recv, arg, seen>>

\* ----------------------------------------------------------------- errors
ErrNil == [k |-> "nil"]
ErrTransport == [k |-> "transport"]
ErrDecode == [k |-> "decode"]
Running == [k |-> "running"]
ErrUnexpectedResponseCode(code) == [k |-> "unexpected", Actual |-> code]
ErrReauthFunc(n) == [k |-> "reauthfunc", n |-> n]
ErrHook(hook, n) == [k |-> "hook", hook |-> hook, n |-> n]
\* Mutant: the composite error keeps only the reauthentication error.
ErrUnableToReauthenticate_DropsOriginal(orig, reauth) ==
    [k |-> "unable", ErrOriginal |-> ErrNil, ErrReauth |-> reauth]

ErrUnableToReauthenticate(orig, reauth) ==
    [k |-> "unable", ErrOriginal |-> orig, ErrReauth |-> reauth]
ErrErrorAfterReauthentication(e) == [k |-> "after", ErrOriginal |-> e]

\* errors.New of the two option checks, and the errors of json.Marshal
\* and of Seek
ErrBothBodies == [k |-> "config", what |-> "JSONBody and RawBody"]
ErrKeepResponseBody == [k |-> "config", what |-> "KeepResponseBody and JSONResponse"]
ErrMarshal == [k |-> "marshal"]
ErrSeek == [k |-> "seek"]
ErrExtractTokenID == [k |-> "extract"]

IsNil(e) == e.k = "nil"

\* ---------------------------------------------------------- pure helpers
newReauthFuture == [done |-> FALSE, err |-> ErrNil]

\* A nil OkCodes: the caller supplied no list.
NilOkCodes == {-1}

Methods == {"GET", "HEAD", "POST", "PUT", "PATCH", "DELETE", "OPTIONS"}

\* Mutant: PUT is given the codes of PATCH.
defaultOkCodes_PutAsPatch(m) ==
    CASE m \in {"GET", "HEAD"} -> {StatusOK}
      [] m = "POST" -> {StatusCreated, StatusAccepted}
      [] m \in {"PUT", "PATCH"} -> {StatusOK, StatusAccepted, StatusNoContent}
      [] m = "DELETE" -> {StatusAccepted, StatusNoContent}
      [] OTHER -> {}

defaultOkCodes(m) ==
    CASE m \in {"GET", "HEAD"} -> {StatusOK}
      [] m = "POST" -> {StatusCreated, StatusAccepted}
      [] m = "PUT" -> {StatusCreated, StatusAccepted}
      [] m = "PATCH" -> {StatusOK, StatusAccepted, StatusNoContent}
      [] m = "DELETE" -> {StatusAccepted, StatusNoContent}
      [] OTHER -> {}

\* doRequest: `okc := options.OkCodes; if okc == nil { okc = defaultOkCodes(method) }`.
okc == IF OkCodes = NilOkCodes THEN defaultOkCodes(method) ELSE OkCodes

\* Mutant: a MaxBackoffRetries of 0 is not replaced by the default.
maxTries_NoDefault == MaxBackoffRetries

maxTries ==
    IF MaxBackoffRetries = 0 THEN DefaultMaxBackoffRetries ELSE MaxBackoffRetries

ResponseCodes == {TransportError, StatusOK, StatusUnauthorized,
                  StatusTooManyRequests, StatusSlowDown, StatusServerError}

RateLimited == {StatusTooManyRequests, StatusSlowDown}

\* -------------------------------------------------------- request options
\* The keys a caller may name; http.Header stores the canonical form.
HeaderKeys == {"Content-Type", "Accept", "User-Agent", "X-Auth-Token",
               "X-Custom", "x-custom"}

CanonicalHeaderKey(k) == IF k = "x-custom" THEN "X-Custom" ELSE k

NoHeaders == [k \in {} |-> <<>>]

\* A header value is a pair: who set it, and the value.
applicationJSON == <<"default", "application/json">>
UserAgent == <<"default", "UserAgent.Join()">>
CallerValue(k) ==
    IF CanonicalHeaderKey(k) = "X-Auth-Token"
    THEN <<"caller", StaleToken>> ELSE <<"caller", k>>

\* req.Header.Set, Del and Get.
HeaderSet(h, k, v) ==
    [x \in DOMAIN h \cup {CanonicalHeaderKey(k)} |->
        IF x = CanonicalHeaderKey(k) THEN v ELSE h[x]]

HeaderDel(h, k) == [x \in DOMAIN h \ {CanonicalHeaderKey(k)} |-> h[x]]

HeaderGet(h, k) ==
    IF CanonicalHeaderKey(k) \in DOMAIN h
    THEN h[CanonicalHeaderKey(k)][2] ELSE NoToken

\* doRequest: Content-Type when a JSONBody was rendered, Accept, User-Agent.
defaultHeaders ==
    LET accept == HeaderSet(NoHeaders, "Accept", applicationJSON)
        ctype == IF JSONBody # "nil"
                 THEN HeaderSet(accept, "Content-Type", applicationJSON)
                 ELSE accept
    IN HeaderSet(ctype, "User-Agent", UserAgent)

\* `for k, v := range options.MoreHeaders { req.Header.Set(k, v) }`: the
\* map is ranged over in no fixed order, so of the keys with one canonical
\* form the last one set, any of them, wins: w names the winners.
moreWinners ==
    LET canon == {CanonicalHeaderKey(k) : k \in DOMAIN MoreHeaders} IN
    {w \in [canon -> DOMAIN MoreHeaders] :
        \A c \in canon : CanonicalHeaderKey(w[c]) = c}

\* Mutant: a header the defaults have set is not overridden.
withMoreHeaders_DefaultsWin(h, w) ==
    [x \in DOMAIN h \cup DOMAIN w |->
        IF x \in DOMAIN h THEN h[x] ELSE MoreHeaders[w[x]]]

withMoreHeaders(h, w) ==
    [x \in DOMAIN h \cup DOMAIN w |->
        IF x \in DOMAIN w THEN MoreHeaders[w[x]] ELSE h[x]]

\* `for _, v := range options.OmitHeaders { req.Header.Del(v) }`.
withoutOmitHeaders(h) ==
    [x \in DOMAIN h \ {CanonicalHeaderKey(k) : k \in OmitHeaders} |-> h[x]]

\* Mutant: KeepResponseBody is not checked against JSONResponse.
optionsError_NoKeepCheck ==
    IF JSONBody # "nil" /\ RawBody # "nil" THEN ErrBothBodies
    ELSE IF JSONBody = "unmarshalable" THEN ErrMarshal
    ELSE ErrNil

\* doRequest up to the request headers: the option checks, in their order.
optionsError ==
    IF JSONBody # "nil" /\ RawBody # "nil" THEN ErrBothBodies
    ELSE IF JSONBody = "unmarshalable" THEN ErrMarshal
    ELSE IF KeepResponseBody /\ JSONResponse THEN ErrKeepResponseBody
    ELSE ErrNil

\* dispatch: requests handed to the transport; last: the latest answer;
\* run429: the current run of consecutive 429/498 answers; backoff,
\* retryFunc: invocations of the two hooks; retryNil: nil answers of
\* RetryFunc; reauth, reauthFunc: invocations of Reauthenticate and of
\* ReauthFunc by this call; from: the position of the RawBody stream when
\* the latest dispatch began.
\* What has become of the response bodies a call obtained: undrained, a
\* body was closed, at once or by a deferred Close, without having been
\* read to its end; open, a body is left open for the caller.
NoBodies == [undrained |-> FALSE, open |-> FALSE]

NoCalls == [dispatch |-> 0, last |-> StatusOK, run429 |-> 0, backoff |-> 0,
            retryFunc |-> 0, retryNil |-> 0, reauth |-> 0, reauthFunc |-> 0,
            from |-> 0, decoded |-> "none"]

\* ------------------------------------------------------------------ Init
InitCalls ==
    /\ ongoing = NoFuture
    /\ futures = <<>>
    /\ pc = [p \in Procs |-> "idle"]
    /\ op = [p \in Procs |-> "none"]
    /\ state = [p \in Procs |-> [hasReauthenticated |-> FALSE, retries |-> 0]]
    /\ prereqtok = [p \in Procs |-> NoToken]
    /\ previousToken = [p \in Procs |-> NoToken]
    /\ hdrOngoing = [p \in Procs |-> NoFuture]
    /\ future = [p \in Procs |-> NoFuture]
    /\ myOngoing = [p \in Procs |-> NoFuture]
    /\ err = [p \in Procs |-> ErrNil]
    /\ respErr = [p \in Procs |-> ErrNil]
    /\ nested = [p \in Procs |-> FALSE]
    /\ result = [p \in Procs |-> Running]
    /\ ctxDone = [p \in Procs |-> FALSE]
    /\ calls = [p \in Procs |-> NoCalls]
    /\ offset = [p \in Procs |-> 0]
    /\ reqHeader = [p \in Procs |-> NoHeaders]
    /\ bodies = [p \in Procs |-> NoBodies]
    /\ reauthFuncCalls = 0
    /\ attempts = <<>>

\* The argument of a goroutine that runs no store operation.
NoArgument == <<NoToken, NilAuthResult>>

\* The token locks are free and no store operation runs.
InitStore ==
    /\ mutW = [l \in Locks |-> Unlocked]
    /\ mutR = [l \in Locks |-> {}]
    /\ recv = [p \in Procs |-> "client"]
    /\ arg = [p \in Procs |-> NoArgument]
    /\ seen = [p \in Procs |-> NoToken]

\* No second client is in use.
NoTac ==
    /\ tacMut = "same"
    /\ tacTokenID = NoToken
    /\ tacAuthResult = NilAuthResult

\* A client shared by the goroutines: UseTokenLock was called and ReauthFunc
\* is set.  The store holds the token the callers know as stale, or a newer
\* one that an earlier reauthentication has already installed.
Init ==
    /\ TokenID \in {StaleToken, StaleToken + 1}
    /\ authResult = TokenID
    /\ ReauthFunc = TRUE
    /\ RetryBackoffFunc = FALSE
    /\ RetryFunc = FALSE
    /\ MaxBackoffRetries = 0
    /\ Throwaway = FALSE
    /\ useTokenLock = TRUE
    /\ JSONResponse = FALSE
    /\ JSONBody = "nil"
    /\ RawBody = "nil"
    /\ KeepResponseBody = FALSE
    /\ MoreHeaders = NoHeaders
    /\ OmitHeaders = {}
    /\ method = "GET"
    /\ OkCodes = NilOkCodes
    /\ bodyEnds = {TRUE}
    /\ server = {TransportError, StatusOK, StatusUnauthorized}
    /\ InitCalls
    /\ InitStore
    /\ NoTac

\* ------------------------------------------------------ Request / doRequest
\* Request: a fresh requestState, then doRequest.  The caller hands over
\* the RawBody stream at its start.
Request(p) ==
    /\ pc[p] = "idle"
    /\ pc' = [pc EXCEPT ![p] = "headers"]
    /\ op' = [op EXCEPT ![p] = "Request"]
    /\ state' = [state EXCEPT ![p] = [hasReauthenticated |-> FALSE, retries |-> 0]]
    /\ UNCHANGED <<configVars, requestVars, lockVars, storeVars,
                   reauthVars, prereqtok, previousToken, hdrOngoing, future,
                   myOngoing, err, respErr, nested, result, ctxDone, calls>>

\* Mutant: the frame that reauthenticated wraps whatever the retried call
\* returned, nil included.
returned_WrapsNil(isNested, e) ==
    IF isNested THEN ErrErrorAfterReauthentication(e) ELSE e

\* What the caller of Request gets when the innermost doRequest returns e:
\* the frame that reauthenticated wraps a failure of the retried call.
returned(isNested, e) ==
    IF isNested /\ ~IsNil(e) THEN ErrErrorAfterReauthentication(e) ELSE e

\* Mutant: the Throwaway flag is not looked at.
IsThrowaway_Never == FALSE

\* IsThrowaway: the flag, read under reauthmut.RLock.
IsThrowaway == Throwaway

\* doRequest from its entry to AuthenticatedHeaders' first access to shared
\* state.  A misused option returns before the request is built.  Otherwise
\* the header is filled (defaults, MoreHeaders, OmitHeaders); then a
\* throwaway client gets no authentication header, and any other reads
\* ongoing under reauthmut.
AuthenticatedHeaders(p) ==
    /\ pc[p] = "headers"
    /\ IF ~IsNil(optionsError)
       THEN /\ result' = [result EXCEPT ![p] = returned(nested[p], optionsError)]
            /\ pc' = [pc EXCEPT ![p] = "done"]
            /\ UNCHANGED <<reqHeader, prereqtok, hdrOngoing>>
       ELSE /\ \E w \in moreWinners :
                 LET h == withoutOmitHeaders(withMoreHeaders(defaultHeaders, w)) IN
                 /\ reqHeader' = [reqHeader EXCEPT ![p] = h]
                 /\ prereqtok' = [prereqtok EXCEPT ![p] =
                       IF IsThrowaway THEN HeaderGet(h, "X-Auth-Token") ELSE @]
            /\ IF IsThrowaway
               THEN /\ pc' = [pc EXCEPT ![p] = "send"]
                    /\ UNCHANGED hdrOngoing
               ELSE /\ hdrOngoing' = [hdrOngoing EXCEPT ![p] =
                          IF useTokenLock THEN ongoing ELSE NoFuture]
                    /\ pc' = [pc EXCEPT ![p] =
                          IF useTokenLock /\ ongoing # NoFuture
                          THEN "hdrwait" ELSE "token"]
            /\ UNCHANGED result
    /\ UNCHANGED <<configVars, lockVars, storeVars, reauthVars, offset, bodies, op,
                   state, previousToken, future, myOngoing, err, respErr,
                   nested, ctxDone, calls>>

\* Mutant: Get returns without waiting for done to be closed.
GetReady_NoWait(f) == TRUE

\* reauthFuture.Get: `<-f.done` blocks until done is closed, whatever the
\* caller's context; then f.err is returned.
GetReady(f) == futures[f].done

\* Mutant: a waiter reports success whatever the owner recorded.
Get_Nil(f) == ErrNil

Get(f) == futures[f].err

\* Mutant: the error of the attempt waited for ends the request.
HeadersWait_AbortsOnError(p) ==
    /\ pc[p] = "hdrwait"
    /\ GetReady(hdrOngoing[p])
    /\ IF IsNil(Get(hdrOngoing[p]))
       THEN /\ pc' = [pc EXCEPT ![p] = "token"]
            /\ UNCHANGED result
       ELSE /\ pc' = [pc EXCEPT ![p] = "done"]
            /\ result' = [result EXCEPT ![p] = Get(hdrOngoing[p])]
    /\ UNCHANGED <<configVars, requestVars, lockVars, storeVars, reauthVars,
                   op, state, prereqtok, previousToken, hdrOngoing, future,
                   myOngoing, err, respErr, nested, ctxDone, calls>>

\* AuthenticatedHeaders: `_ = ongoing.Get()`.
HeadersWait(p) ==
    /\ pc[p] = "hdrwait"
    /\ GetReady(hdrOngoing[p])
    /\ pc' = [pc EXCEPT ![p] = "token"]
    /\ UNCHANGED <<configVars, requestVars, lockVars, storeVars, reauthVars,
                   op, state, prereqtok, previousToken, hdrOngoing, future,
                   myOngoing, err, respErr, nested, result, ctxDone, calls>>

\* Mutant: the token the client started with is used, not the one in the
\* store.
Token_Initial == StaleToken

\* Token(): TokenID read under mut.RLock.
Token == TokenID

\* AuthenticatedHeaders: t := client.Token(); a non-empty t is set as
\* X-Auth-Token on the request, and prereqtok is what the request carries.
ReadToken(p) ==
    /\ pc[p] = "token"
    /\ LET t == Token
           h == IF t = NoToken THEN reqHeader[p]
                ELSE HeaderSet(reqHeader[p], "X-Auth-Token", <<"token", t>>)
       IN /\ reqHeader' = [reqHeader EXCEPT ![p] = h]
          /\ prereqtok' = [prereqtok EXCEPT ![p] = HeaderGet(h, "X-Auth-Token")]
    /\ pc' = [pc EXCEPT ![p] = "send"]
    /\ UNCHANGED <<configVars, lockVars, storeVars, reauthVars, offset, bodies, op,
                   state, previousToken, hdrOngoing, future, myOngoing, err,
                   respErr, nested, result, ctxDone, calls>>

\* Mutant: when RetryFunc answers an error, the failure it was called with
\* is returned instead.
viaRetryFunc_KeepsOriginal(st, e, hookNil) ==
    IF RetryFunc
    THEN LET inc == [st EXCEPT !.retries = @ + 1] IN
         IF hookNil
         THEN [next |-> "again", state |-> inc, err |-> ErrNil, hook |-> "RetryFunc"]
         ELSE [next |-> "return", state |-> inc, err |-> e, hook |-> "RetryFunc"]
    ELSE [next |-> "return", state |-> st, err |-> e, hook |-> "none"]

\* Mutant: RetryFunc is called without counting the failure.
viaRetryFunc_NoCount(st, e, hookNil) ==
    IF RetryFunc
    THEN IF hookNil
         THEN [next |-> "again", state |-> st, err |-> ErrNil, hook |-> "RetryFunc"]
         ELSE [next |-> "return", state |-> st,
               err |-> ErrHook("RetryFunc", st.retries), hook |-> "RetryFunc"]
    ELSE [next |-> "return", state |-> st, err |-> e, hook |-> "none"]

\* Mutant: with no RetryFunc the request is silently dispatched again.
viaRetryFunc_Silent(st, e, hookNil) ==
    IF RetryFunc
    THEN LET inc == [st EXCEPT !.retries = @ + 1] IN
         IF hookNil
         THEN [next |-> "again", state |-> inc, err |-> ErrNil, hook |-> "RetryFunc"]
         ELSE [next |-> "return", state |-> inc,
               err |-> ErrHook("RetryFunc", inc.retries), hook |-> "RetryFunc"]
    ELSE [next |-> "again", state |-> st, err |-> ErrNil, hook |-> "none"]

\* doRequest: the generic tail shared by a transport error, an unexpected
\* status that no branch of the switch consumed, and a decode failure.
\* RetryFunc, when set, is called with the incremented counter.
viaRetryFunc(st, e, hookNil) ==
    IF RetryFunc
    THEN LET inc == [st EXCEPT !.retries = @ + 1] IN
         IF hookNil
         THEN [next |-> "again", state |-> inc, err |-> ErrNil, hook |-> "RetryFunc"]
         ELSE [next |-> "return", state |-> inc,
               err |-> ErrHook("RetryFunc", inc.retries), hook |-> "RetryFunc"]
    ELSE [next |-> "return", state |-> st, err |-> e, hook |-> "none"]

\* Mutant: the backoff branch is taken whatever the count.
backoffAllowed_NoCeiling(st) == RetryBackoffFunc

\* Mutant: the ceiling is compared with <= instead of <.
backoffAllowed_OffByOne(st) == RetryBackoffFunc /\ st.retries <= maxTries

\* doRequest, case http.StatusTooManyRequests, 498.
backoffAllowed(st) == RetryBackoffFunc /\ st.retries < maxTries

\* Mutant: hasReauthenticated is not consulted.
reauthAllowed_Always(st) == ReauthFunc

\* doRequest, case http.StatusUnauthorized.
reauthAllowed(st) == ReauthFunc /\ ~st.hasReauthenticated

\* Mutant: the body of a 204 is decoded like any other.
doRequestOutcome_DecodesNoContent(st, code, decodeOK, hookNil) ==
    IF code = TransportError
    THEN viaRetryFunc(st, ErrTransport, hookNil)
    ELSE IF code \notin okc
    THEN IF code = StatusUnauthorized /\ reauthAllowed(st)
         THEN [next |-> "reauth", state |-> st, err |-> ErrNil, hook |-> "none"]
         ELSE IF code \in RateLimited /\ backoffAllowed(st)
         THEN LET inc == [st EXCEPT !.retries = @ + 1] IN
              IF hookNil
              THEN [next |-> "again", state |-> inc, err |-> ErrNil,
                    hook |-> "RetryBackoffFunc"]
              ELSE [next |-> "return", state |-> inc,
                    err |-> ErrHook("RetryBackoffFunc", inc.retries),
                    hook |-> "RetryBackoffFunc"]
         ELSE viaRetryFunc(st, ErrUnexpectedResponseCode(code), hookNil)
    ELSE IF JSONResponse /\ ~decodeOK
    THEN viaRetryFunc(st, ErrDecode, hookNil)
    ELSE [next |-> "return", state |-> st, err |-> ErrNil, hook |-> "none"]

\* Mutant: without RetryFunc a decode failure is not reported.
doRequestOutcome_DecodeErrorDropped(st, code, decodeOK, hookNil) ==
    IF code = TransportError
    THEN viaRetryFunc(st, ErrTransport, hookNil)
    ELSE IF code \notin okc
    THEN IF code = StatusUnauthorized /\ reauthAllowed(st)
         THEN [next |-> "reauth", state |-> st, err |-> ErrNil, hook |-> "none"]
         ELSE IF code \in RateLimited /\ backoffAllowed(st)
         THEN LET inc == [st EXCEPT !.retries = @ + 1] IN
              IF hookNil
              THEN [next |-> "again", state |-> inc, err |-> ErrNil,
                    hook |-> "RetryBackoffFunc"]
              ELSE [next |-> "return", state |-> inc,
                    err |-> ErrHook("RetryBackoffFunc", inc.retries),
                    hook |-> "RetryBackoffFunc"]
         ELSE viaRetryFunc(st, ErrUnexpectedResponseCode(code), hookNil)
    ELSE IF JSONResponse /\ code # StatusNoContent /\ ~decodeOK /\ RetryFunc
    THEN viaRetryFunc(st, ErrDecode, hookNil)
    ELSE [next |-> "return", state |-> st, err |-> ErrNil, hook |-> "none"]

\* Mutant: a decode failure is returned without asking RetryFunc.
doRequestOutcome_DecodeNotRetried(st, code, decodeOK, hookNil) ==
    IF code = TransportError
    THEN viaRetryFunc(st, ErrTransport, hookNil)
    ELSE IF code \notin okc
    THEN IF code = StatusUnauthorized /\ reauthAllowed(st)
         THEN [next |-> "reauth", state |-> st, err |-> ErrNil, hook |-> "none"]
         ELSE IF code \in RateLimited /\ backoffAllowed(st)
         THEN LET inc == [st EXCEPT !.retries = @ + 1] IN
              IF hookNil
              THEN [next |-> "again", state |-> inc, err |-> ErrNil,
                    hook |-> "RetryBackoffFunc"]
              ELSE [next |-> "return", state |-> inc,
                    err |-> ErrHook("RetryBackoffFunc", inc.retries),
                    hook |-> "RetryBackoffFunc"]
         ELSE viaRetryFunc(st, ErrUnexpectedResponseCode(code), hookNil)
    ELSE IF JSONResponse /\ code # StatusNoContent /\ ~decodeOK
    THEN [next |-> "return", state |-> st, err |-> ErrDecode, hook |-> "none"]
    ELSE [next |-> "return", state |-> st, err |-> ErrNil, hook |-> "none"]

\* Mutant: an error of RetryBackoffFunc is not returned; the failure goes on
\* to the generic tail.
doRequestOutcome_BackoffErrorFallsThrough(st, code, decodeOK, hookNil) ==
    IF code = TransportError
    THEN viaRetryFunc(st, ErrTransport, hookNil)
    ELSE IF code \notin okc
    THEN IF code = StatusUnauthorized /\ reauthAllowed(st)
         THEN [next |-> "reauth", state |-> st, err |-> ErrNil, hook |-> "none"]
         ELSE IF code \in RateLimited /\ backoffAllowed(st)
         THEN LET inc == [st EXCEPT !.retries = @ + 1] IN
              IF hookNil
              THEN [next |-> "again", state |-> inc, err |-> ErrNil,
                    hook |-> "RetryBackoffFunc"]
              ELSE [viaRetryFunc(inc, ErrHook("RetryBackoffFunc", inc.retries),
                                 hookNil)
                      EXCEPT !.hook = "RetryBackoffFunc"]
         ELSE viaRetryFunc(st, ErrUnexpectedResponseCode(code), hookNil)
    ELSE IF JSONResponse /\ code # StatusNoContent /\ ~decodeOK
    THEN viaRetryFunc(st, ErrDecode, hookNil)
    ELSE [next |-> "return", state |-> st, err |-> ErrNil, hook |-> "none"]

\* doRequest from the dispatch to the next access to shared state or the
\* return: what one response leads to.  code is the status (TransportError
\* when Do failed), decodeOK the outcome of decoding an accepted body,
\* hookNil whether the hook that gets called answers nil.
doRequestOutcome(st, code, decodeOK, hookNil) ==
    IF code = TransportError
    THEN viaRetryFunc(st, ErrTransport, hookNil)
    ELSE IF code \notin okc
    THEN IF code = StatusUnauthorized /\ reauthAllowed(st)
         THEN [next |-> "reauth", state |-> st, err |-> ErrNil, hook |-> "none"]
         ELSE IF code \in RateLimited /\ backoffAllowed(st)
         THEN LET inc == [st EXCEPT !.retries = @ + 1] IN
              IF hookNil
              THEN [next |-> "again", state |-> inc, err |-> ErrNil,
                    hook |-> "RetryBackoffFunc"]
              ELSE [next |-> "return", state |-> inc,
                    err |-> ErrHook("RetryBackoffFunc", inc.retries),
                    hook |-> "RetryBackoffFunc"]
         ELSE viaRetryFunc(st, ErrUnexpectedResponseCode(code), hookNil)
    ELSE IF JSONResponse /\ code # StatusNoContent /\ ~decodeOK
    THEN viaRetryFunc(st, ErrDecode, hookNil)
    ELSE [next |-> "return", state |-> st, err |-> ErrNil, hook |-> "none"]

\* doRequest, what is done with resp.Body.  A transport error brings no
\* body.  The body of an unacceptable status is read by io.ReadAll and
\* closed at once.  With a JSONResponse the Close is deferred, a 204 is
\* discarded to its end, and any other body is handed to Decode, which
\* reads one JSON value: eof tells whether that took the body to its end.
\* Otherwise the body is discarded to its end under a deferred Close,
\* unless KeepResponseBody leaves it open.
responseBody(b, code, eof) ==
    IF code = TransportError \/ code \notin okc
    THEN b
    ELSE IF JSONResponse
    THEN [b EXCEPT !.undrained = @ \/ (code # StatusNoContent /\ ~eof)]
    ELSE IF ~KeepResponseBody
    THEN b
    ELSE [b EXCEPT !.open = TRUE]

\* Whether Decode reads the body to its end depends on what the server
\* sends after the JSON value.
decodeEnds(code) ==
    IF JSONResponse /\ code \in okc /\ code # StatusNoContent
    THEN bodyEnds ELSE {TRUE}

\* Whether the body of this response is handed to Decode, and how that
\* ends.
decodeOutcome(code, decodeOK) ==
    IF code # TransportError /\ code \in okc /\ JSONResponse
       /\ code # StatusNoContent
    THEN IF decodeOK THEN "ok" ELSE "failed"
    ELSE "none"

\* The transport answers a canceled context with an error.
Answers(p) == IF ctxDone[p] THEN {TransportError} ELSE server

\* The positions the RawBody stream can be at after a dispatch that began at
\* position at: the transport reads the request body from there, up to its
\* end, and may stop early.
bodyRead(at) == IF RawBody = "nil" THEN {at} ELSE at..BodyLen

\* doRequest: HTTPClient.Do, the status check and the hook of the branch.
Do(p) ==
    /\ pc[p] = "send"
    /\ \E read \in bodyRead(offset[p]) :
         offset' = [offset EXCEPT ![p] = read]
    /\ \E code \in Answers(p), decodeOK \in BOOLEAN, hookNil \in BOOLEAN :
         LET out == doRequestOutcome(state[p], code, decodeOK, hookNil)
             c == calls[p]
         IN
         /\ \E eof \in decodeEnds(code) :
               bodies' = [bodies EXCEPT ![p] = responseBody(@, code, eof)]
         /\ (out.hook = "RetryFunc" /\ hookNil) => c.retryNil < MaxRetryNil
         /\ state' = [state EXCEPT ![p] = out.state]
         /\ calls' = [calls EXCEPT ![p] =
               [c EXCEPT !.dispatch = @ + 1,
                         !.from = offset[p],
                         !.decoded = decodeOutcome(code, decodeOK),
                         !.last = code,
                         !.run429 = IF code \in RateLimited THEN @ + 1 ELSE 0,
                         !.backoff = IF out.hook = "RetryBackoffFunc" THEN @ + 1 ELSE @,
                         !.retryFunc = IF out.hook = "RetryFunc" THEN @ + 1 ELSE @,
                         !.retryNil = IF out.hook = "RetryFunc" /\ hookNil
                                      THEN @ + 1 ELSE @]]
         /\ pc' = [pc EXCEPT ![p] =
               CASE out.next = "again" -> "headers"
                 [] out.next = "reauth" -> "reauth"
                 [] OTHER -> "done"]
         /\ result' = [result EXCEPT ![p] =
               IF out.next = "return" THEN returned(nested[p], out.err) ELSE @]
         /\ respErr' = [respErr EXCEPT ![p] =
               IF out.next = "reauth" THEN ErrUnexpectedResponseCode(code) ELSE @]
         /\ previousToken' = [previousToken EXCEPT ![p] =
               IF out.next = "reauth" THEN prereqtok[p] ELSE @]
    /\ UNCHANGED <<configVars, lockVars, storeVars, reauthVars, reqHeader, op,
                   prereqtok, hdrOngoing, future, myOngoing, err, nested,
                   ctxDone>>

\* ---------------------------------------------------------- Reauthenticate
\* A goroutine calls Reauthenticate itself, with or without a previous token.
CallReauthenticate(p) ==
    /\ pc[p] = "idle"
    /\ \E prev \in {NoToken, StaleToken} :
         previousToken' = [previousToken EXCEPT ![p] = prev]
    /\ pc' = [pc EXCEPT ![p] = "reauth"]
    /\ op' = [op EXCEPT ![p] = "Reauthenticate"]
    /\ UNCHANGED <<configVars, requestVars, lockVars, storeVars, reauthVars,
                   state, prereqtok, hdrOngoing, future, myOngoing, err,
                   respErr, nested, result, ctxDone, calls>>

\* Mutant: the marker is installed without looking at the one in place.
becomesOwner_Always == TRUE

\* Reauthenticate, the section under reauthmut: `ongoing == nil` decides
\* between installing the new future (owner) and waiting (waiter).
becomesOwner == ongoing = NoFuture

\* History of a future just installed by an owner called with prev.
NewAttempt(prev) ==
    [prev |-> prev, before |-> <<TokenID, authResult>>, decided |-> FALSE,
     seen |-> NoToken, invoked |-> FALSE, produced |-> Running,
     finished |-> FALSE, after |-> <<TokenID, authResult>>]

\* Mutant: without locks the previous token is compared as well, and
\* ReauthFunc is skipped when the token has changed.
Reauthenticate_AlwaysCompares(p) ==
    /\ pc[p] = "reauth"
    /\ LET must == previousToken[p] = NoToken \/ TokenID = previousToken[p] IN
       /\ calls' = [calls EXCEPT ![p] =
             [@ EXCEPT !.reauth = @ + 1,
                       !.reauthFunc = IF ReauthFunc /\ ~useTokenLock /\ must
                                      THEN @ + 1 ELSE @]]
       /\ IF ~ReauthFunc
          THEN /\ err' = [err EXCEPT ![p] = ErrNil]
               /\ pc' = [pc EXCEPT ![p] = "rreturn"]
               /\ UNCHANGED <<reauthVars, future, myOngoing>>
          ELSE IF ~useTokenLock
          THEN /\ pc' = [pc EXCEPT ![p] = IF must THEN "rfunc" ELSE "rreturn"]
               /\ reauthFuncCalls' = IF must THEN reauthFuncCalls + 1
                                     ELSE reauthFuncCalls
               /\ err' = [err EXCEPT ![p] = IF must THEN @ ELSE ErrNil]
               /\ UNCHANGED <<ongoing, futures, attempts, future, myOngoing>>
          ELSE /\ myOngoing' = [myOngoing EXCEPT ![p] = ongoing]
               /\ IF ongoing = NoFuture
                  THEN /\ futures' = Append(futures, newReauthFuture)
                       /\ attempts' = Append(attempts, NewAttempt(previousToken[p]))
                       /\ future' = [future EXCEPT ![p] = Len(futures) + 1]
                       /\ ongoing' = Len(futures) + 1
                       /\ pc' = [pc EXCEPT ![p] = "compare"]
                  ELSE /\ pc' = [pc EXCEPT ![p] = "rwait"]
                       /\ UNCHANGED <<ongoing, futures, attempts, future>>
               /\ UNCHANGED <<err, reauthFuncCalls>>
    /\ UNCHANGED <<configVars, requestVars, lockVars, storeVars, op, state,
                   prereqtok, previousToken, hdrOngoing, respErr, nested,
                   result, ctxDone>>

\* Reauthenticate up to the first Unlock.  Without ReauthFunc it returns nil;
\* without locks it calls ReauthFunc directly.
Reauthenticate(p) ==
    /\ pc[p] = "reauth"
    /\ calls' = [calls EXCEPT ![p] =
          [@ EXCEPT !.reauth = @ + 1,
                    !.reauthFunc = IF ReauthFunc /\ ~useTokenLock THEN @ + 1 ELSE @]]
    /\ IF ~ReauthFunc
       THEN /\ err' = [err EXCEPT ![p] = ErrNil]
            /\ pc' = [pc EXCEPT ![p] = "rreturn"]
            /\ UNCHANGED <<reauthVars, future, myOngoing>>
       ELSE IF ~useTokenLock
       THEN /\ pc' = [pc EXCEPT ![p] = "rfunc"]
            /\ reauthFuncCalls' = reauthFuncCalls + 1
            /\ UNCHANGED <<ongoing, futures, attempts, future, myOngoing, err>>
       ELSE /\ myOngoing' = [myOngoing EXCEPT ![p] = ongoing]
            /\ IF becomesOwner
               THEN /\ futures' = Append(futures, newReauthFuture)
                    /\ attempts' = Append(attempts, NewAttempt(previousToken[p]))
                    /\ future' = [future EXCEPT ![p] = Len(futures) + 1]
                    /\ ongoing' = Len(futures) + 1
                    /\ pc' = [pc EXCEPT ![p] = "compare"]
               ELSE /\ pc' = [pc EXCEPT ![p] = "rwait"]
                    /\ UNCHANGED <<ongoing, futures, attempts, future>>
            /\ UNCHANGED <<err, reauthFuncCalls>>
    /\ UNCHANGED <<configVars, requestVars, lockVars, storeVars, op, state,
                   prereqtok, previousToken, hdrOngoing, respErr, nested,
                   result, ctxDone>>

\* Reauthenticate, waiter: `return ongoing.Get()`.
ReauthWait(p) ==
    /\ pc[p] = "rwait"
    /\ GetReady(myOngoing[p])
    /\ err' = [err EXCEPT ![p] = Get(myOngoing[p])]
    /\ pc' = [pc EXCEPT ![p] = "rreturn"]
    /\ UNCHANGED <<configVars, requestVars, lockVars, storeVars, reauthVars,
                   op, state, prereqtok, previousToken, hdrOngoing, future,
                   myOngoing, respErr, nested, result, ctxDone, calls>>

\* Mutant: the owner never skips ReauthFunc.
mustReauth_Always(prev) == TRUE

\* Mutant: an empty previous token no longer forces the reauthentication.
mustReauth_NoForce(prev) == TokenID = prev

\* Reauthenticate, owner: `previousToken == "" || client.TokenID == previousToken`.
mustReauth(prev) == prev = NoToken \/ TokenID = prev

\* Reauthenticate, owner: call ReauthFunc or skip it with err = nil.
Compare(p) ==
    /\ pc[p] = "compare"
    /\ IF mustReauth(previousToken[p])
       THEN /\ pc' = [pc EXCEPT ![p] = "rfunc"]
            /\ reauthFuncCalls' = reauthFuncCalls + 1
            /\ attempts' = [attempts EXCEPT ![future[p]] =
                  [@ EXCEPT !.decided = TRUE, !.seen = TokenID, !.invoked = TRUE]]
            /\ calls' = [calls EXCEPT ![p].reauthFunc = @ + 1]
            /\ UNCHANGED err
       ELSE /\ pc' = [pc EXCEPT ![p] = "finish"]
            /\ err' = [err EXCEPT ![p] = ErrNil]
            /\ attempts' = [attempts EXCEPT ![future[p]] =
                  [@ EXCEPT !.decided = TRUE, !.seen = TokenID, !.produced = ErrNil]]
            /\ UNCHANGED <<reauthFuncCalls, calls>>
    /\ UNCHANGED <<configVars, requestVars, lockVars, storeVars, ongoing,
                   futures, op, state, prereqtok, previousToken, hdrOngoing,
                   future, myOngoing, respErr, nested, result, ctxDone>>

\* ReauthFunc returns: on success it has written a new token and its
\* authentication result to the store; on failure it has written nothing.
ReauthFuncReturns(p) ==
    /\ pc[p] = "rfunc"
    /\ \E ok \in BOOLEAN :
         LET e == IF ok THEN ErrNil ELSE ErrReauthFunc(reauthFuncCalls) IN
         /\ TokenID' = IF ok THEN TokenID + 1 ELSE TokenID
         /\ authResult' = IF ok THEN TokenID + 1 ELSE authResult
         /\ err' = [err EXCEPT ![p] = e]
         /\ attempts' = IF useTokenLock
                        THEN [attempts EXCEPT ![future[p]].produced = e]
                        ELSE attempts
    /\ pc' = [pc EXCEPT ![p] = IF useTokenLock THEN "finish" ELSE "rreturn"]
    /\ UNCHANGED <<configVars, requestVars, lockVars, ongoing, futures,
                   reauthFuncCalls, op, state, prereqtok, previousToken,
                   hdrOngoing, future, myOngoing, respErr, nested, result,
                   ctxDone, calls>>

\* Mutant: the future is closed without recording the error.
Set_DropsErr(f, e) == [futures EXCEPT ![f] = [done |-> TRUE, err |-> ErrNil]]

\* reauthFuture.Set: f.err = err; close(f.done).
Set(f, e) == [futures EXCEPT ![f] = [done |-> TRUE, err |-> e]]

\* Mutant: the owner completes the future and leaves it installed.
Finish_KeepsMarker(p) ==
    /\ pc[p] = "finish"
    /\ futures' = Set(ongoing, err[p])
    /\ attempts' = [attempts EXCEPT ![future[p]] =
          [@ EXCEPT !.finished = TRUE, !.after = <<TokenID, authResult>>]]
    /\ pc' = [pc EXCEPT ![p] = "rreturn"]
    /\ UNCHANGED <<configVars, requestVars, lockVars, storeVars, ongoing,
                   reauthFuncCalls, op, state, prereqtok, previousToken,
                   hdrOngoing, future, myOngoing, err, respErr, nested, result,
                   ctxDone, calls>>

\* Reauthenticate, owner, the second section under reauthmut:
\* ongoing.Set(err); ongoing = nil.
Finish(p) ==
    /\ pc[p] = "finish"
    /\ futures' = Set(ongoing, err[p])
    /\ ongoing' = NoFuture
    /\ attempts' = [attempts EXCEPT ![future[p]] =
          [@ EXCEPT !.finished = TRUE, !.after = <<TokenID, authResult>>]]
    /\ pc' = [pc EXCEPT ![p] = "rreturn"]
    /\ UNCHANGED <<configVars, requestVars, lockVars, storeVars,
                   reauthFuncCalls, op, state, prereqtok, previousToken,
                   hdrOngoing, future, myOngoing, err, respErr, nested, result,
                   ctxDone, calls>>

\* doRequest, after a successful Reauthenticate: a RawBody that is an
\* io.Seeker is sought to its start, and a failing Seek is returned; any
\* other RawBody is left where it is.
seekOutcome ==
    CASE RawBody = "Seeker" -> [err |-> ErrNil, rewound |-> TRUE]
      [] RawBody = "FailingSeeker" -> [err |-> ErrSeek, rewound |-> FALSE]
      [] OTHER -> [err |-> ErrNil, rewound |-> FALSE]

\* Reauthenticate returns err.  A direct caller gets it; doRequest returns
\* ErrUnableToReauthenticate on an error, and otherwise rewinds the RawBody,
\* marks the call as reauthenticated and runs doRequest again inside this
\* frame.
ReauthReturn(p) ==
    /\ pc[p] = "rreturn"
    /\ IF op[p] = "Reauthenticate"
       THEN /\ result' = [result EXCEPT ![p] = err[p]]
            /\ pc' = [pc EXCEPT ![p] = "done"]
            /\ UNCHANGED <<state, nested, offset>>
       ELSE IF ~IsNil(err[p])
       THEN /\ result' = [result EXCEPT ![p] =
                            ErrUnableToReauthenticate(respErr[p], err[p])]
            /\ pc' = [pc EXCEPT ![p] = "done"]
            /\ UNCHANGED <<state, nested, offset>>
       ELSE IF ~IsNil(seekOutcome.err)
       THEN /\ result' = [result EXCEPT ![p] = seekOutcome.err]
            /\ pc' = [pc EXCEPT ![p] = "done"]
            /\ UNCHANGED <<state, nested, offset>>
       ELSE /\ offset' = [offset EXCEPT ![p] =
                            IF seekOutcome.rewound THEN 0 ELSE @]
            /\ state' = [state EXCEPT ![p].hasReauthenticated = TRUE]
            /\ nested' = [nested EXCEPT ![p] = TRUE]
            /\ pc' = [pc EXCEPT ![p] = "headers"]
            /\ UNCHANGED result
    /\ UNCHANGED <<configVars, lockVars, storeVars, reauthVars, reqHeader,
                   bodies, op, prereqtok, previousToken, hdrOngoing, future,
                   myOngoing, err, respErr, ctxDone, calls>>

\* The context of a running call is canceled.
Cancel(p) ==
    /\ pc[p] \notin {"idle", "done"}
    /\ ~ctxDone[p]
    /\ ctxDone' = [ctxDone EXCEPT ![p] = TRUE]
    /\ UNCHANGED <<configVars, requestVars, lockVars, storeVars, reauthVars,
                   pc, op, state, prereqtok, previousToken, hdrOngoing, future,
                   myOngoing, err, respErr, nested, result, calls>>

\* ------------------------------------------------------------ token store
\* The two clients, the lock each one's mut points to, and their stores.
Clients == {"client", "tac"}

otherOf(c) == IF c = "client" THEN "tac" ELSE "client"

mutOf(c) == IF c = "tac" /\ tacMut = "own" THEN "tac" ELSE "client"

tokenOf(c) == IF c = "client" THEN TokenID ELSE tacTokenID

authOf(c) == IF c = "client" THEN authResult ELSE tacAuthResult

Tokens == {NoToken, StaleToken, StaleToken + 1}

\* What each writer is called with, as the pair it will store.  SetToken(t)
\* clears authResult; SetTokenAndAuthResult(r) stores the token r yields,
\* the empty one for a nil r.  The callers write a new token.
Arguments(o) ==
    CASE o = "SetToken" -> {<<StaleToken + 1, NilAuthResult>>}
      [] o = "SetTokenAndAuthResult" ->
            {<<NoToken, NilAuthResult>>, <<NoToken, BadAuthResult>>,
             <<StaleToken + 1, StaleToken + 1>>}
      [] OTHER -> {NoArgument}

Writers == {"SetToken", "SetTokenAndAuthResult", "CopyTokenFrom"}

Readers == {"Token", "GetAuthResult"}

\* A goroutine calls an operation of the token store on one of the clients,
\* or is the owner in Reauthenticate about to compare TokenID.
\* SetTokenAndAuthResult returns the error of ExtractTokenID at once.
StoreCall(p) ==
    /\ pc[p] = "idle"
    /\ \E o \in Writers \cup Readers \cup {"Reauthenticate"}, c \in Clients :
       \E a \in Arguments(o) :
         /\ op' = [op EXCEPT ![p] = o]
         /\ recv' = [recv EXCEPT ![p] = c]
         /\ arg' = [arg EXCEPT ![p] = a]
         /\ result' = [result EXCEPT ![p] =
               IF a[2] = BadAuthResult THEN ErrExtractTokenID ELSE Running]
         /\ pc' = [pc EXCEPT ![p] =
               CASE a[2] = BadAuthResult -> "ret"
                 [] o \in Writers -> "lock"
                 [] o \in Readers -> "rlock"
                 [] OTHER -> "compare"]
    /\ UNCHANGED <<configVars, requestVars, storeVars, reauthVars, callVars,
                   mutW, mutR, tacMut, tacTokenID, tacAuthResult, seen>>

\* mut.Lock: no goroutine holds the lock, for writing or for reading.
CanLock(l) == mutW[l] = Unlocked /\ mutR[l] = {}

\* mut.RLock: no goroutine holds the lock for writing.
CanRLock(l) == mutW[l] = Unlocked

\* Mutant: other.mut is read-locked without comparing it with client.mut.
needsRLock_Always(c) == TRUE

\* CopyTokenFrom: `other.mut != nil && other.mut != client.mut`.
needsRLock(c) == mutOf(otherOf(c)) # mutOf(c)

\* SetToken, SetTokenAndAuthResult, CopyTokenFrom: client.mut.Lock().
MutLock(p) ==
    /\ pc[p] = "lock"
    /\ CanLock(mutOf(recv[p]))
    /\ mutW' = [mutW EXCEPT ![mutOf(recv[p])] = p]
    /\ pc' = [pc EXCEPT ![p] =
          IF op[p] = "CopyTokenFrom" /\ needsRLock(recv[p])
          THEN "rlockother" ELSE "tokenid"]
    /\ UNCHANGED <<configVars, requestVars, storeVars, reauthVars, callVars,
                   op, result, mutR, tacMut, tacTokenID, tacAuthResult, recv,
                   arg, seen>>

\* CopyTokenFrom: other.mut.RLock().
OtherRLock(p) ==
    /\ pc[p] = "rlockother"
    /\ CanRLock(mutOf(otherOf(recv[p])))
    /\ mutR' = [mutR EXCEPT ![mutOf(otherOf(recv[p]))] = @ \cup {p}]
    /\ pc' = [pc EXCEPT ![p] = "tokenid"]
    /\ UNCHANGED <<configVars, requestVars, storeVars, reauthVars, callVars,
                   op, result, mutW, tacMut, tacTokenID, tacAuthResult, recv,
                   arg, seen>>

\* Mutant: SetToken stores the token and leaves authResult as it is.
written_SetTokenKeepsResult(p) ==
    IF op[p] = "CopyTokenFrom"
    THEN <<tokenOf(otherOf(recv[p])), authOf(otherOf(recv[p]))>>
    ELSE IF op[p] = "SetToken"
    THEN <<arg[p][1], authOf(recv[p])>>
    ELSE arg[p]

\* The pair a writer stores: its argument, or the fields of other as they
\* are when CopyTokenFrom reads them.
written(p) ==
    IF op[p] = "CopyTokenFrom"
    THEN <<tokenOf(otherOf(recv[p])), authOf(otherOf(recv[p]))>>
    ELSE arg[p]

\* `client.TokenID = ...`, the first of the two assignments under the lock.
WriteTokenID(p) ==
    /\ pc[p] = "tokenid"
    /\ IF recv[p] = "client"
       THEN TokenID' = written(p)[1] /\ UNCHANGED tacTokenID
       ELSE tacTokenID' = written(p)[1] /\ UNCHANGED TokenID
    /\ pc' = [pc EXCEPT ![p] = "authresult"]
    /\ UNCHANGED <<configVars, requestVars, authResult, reauthVars, callVars,
                   op, result, mutW, mutR, tacMut, tacAuthResult, recv, arg,
                   seen>>

\* `client.authResult = ...`, the second assignment.
WriteAuthResult(p) ==
    /\ pc[p] = "authresult"
    /\ IF recv[p] = "client"
       THEN authResult' = written(p)[2] /\ UNCHANGED tacAuthResult
       ELSE tacAuthResult' = written(p)[2] /\ UNCHANGED authResult
    /\ pc' = [pc EXCEPT ![p] = "unlock"]
    /\ UNCHANGED <<configVars, requestVars, TokenID, reauthVars, callVars,
                   op, result, mutW, mutR, tacMut, tacTokenID, recv, arg,
                   seen>>

\* The deferred other.mut.RUnlock() and client.mut.Unlock(), and the return
\* of the writer.
MutUnlock(p) ==
    /\ pc[p] = "unlock"
    /\ mutR' = [l \in Locks |-> mutR[l] \ {p}]
    /\ mutW' = [mutW EXCEPT ![mutOf(recv[p])] = Unlocked]
    /\ pc' = [pc EXCEPT ![p] = "idle"]
    /\ op' = [op EXCEPT ![p] = "none"]
    /\ recv' = [recv EXCEPT ![p] = "client"]
    /\ arg' = [arg EXCEPT ![p] = NoArgument]
    /\ UNCHANGED <<configVars, requestVars, storeVars, reauthVars, callVars,
                   result, tacMut, tacTokenID, tacAuthResult, seen>>

\* A reader, or SetTokenAndAuthResult with the error of ExtractTokenID,
\* returns to its caller.
StoreReturn(p) ==
    /\ pc[p] = "ret"
    /\ pc' = [pc EXCEPT ![p] = "idle"]
    /\ op' = [op EXCEPT ![p] = "none"]
    /\ recv' = [recv EXCEPT ![p] = "client"]
    /\ arg' = [arg EXCEPT ![p] = NoArgument]
    /\ seen' = [seen EXCEPT ![p] = NoToken]
    /\ result' = [result EXCEPT ![p] = Running]
    /\ UNCHANGED <<configVars, requestVars, storeVars, reauthVars, callVars,
                   mutW, mutR, tacMut, tacTokenID, tacAuthResult>>

\* Token, GetAuthResult: client.mut.RLock().
MutRLock(p) ==
    /\ pc[p] = "rlock"
    /\ CanRLock(mutOf(recv[p]))
    /\ mutR' = [mutR EXCEPT ![mutOf(recv[p])] = @ \cup {p}]
    /\ pc' = [pc EXCEPT ![p] = "read"]
    /\ UNCHANGED <<configVars, requestVars, storeVars, reauthVars, callVars,
                   op, result, mutW, tacMut, tacTokenID, tacAuthResult, recv,
                   arg, seen>>

\* Token, GetAuthResult: the field is read, the deferred RUnlock runs and
\* the value is returned.
ReadField(p) ==
    /\ pc[p] = "read"
    /\ seen' = [seen EXCEPT ![p] =
          IF op[p] = "Token" THEN tokenOf(recv[p]) ELSE authOf(recv[p])]
    /\ mutR' = [mutR EXCEPT ![mutOf(recv[p])] = @ \ {p}]
    /\ pc' = [pc EXCEPT ![p] = "ret"]
    /\ UNCHANGED <<configVars, requestVars, storeVars, reauthVars, callVars,
                   op, result, mutW, tacMut, tacTokenID, tacAuthResult, recv,
                   arg>>

\* A writer is between taking the lock of c and its assignment of TokenID.
WritingTokenID(c) ==
    \E q \in Procs : pc[q] = "tokenid" /\ recv[q] = c

\* Reauthenticate, owner: `client.TokenID == previousToken` reads TokenID
\* without taking mut.  It yields the field as it is; a read that races with
\* the assignment of a writer may yield any string.
racyTokenID(c) == IF WritingTokenID(c) THEN Tokens ELSE {tokenOf(c)}

CompareRead(p) ==
    /\ pc[p] = "compare"
    /\ \E t \in racyTokenID(recv[p]) : seen' = [seen EXCEPT ![p] = t]
    /\ pc' = [pc EXCEPT ![p] = "ret"]
    /\ UNCHANGED <<configVars, requestVars, storeVars, reauthVars, callVars,
                   op, result, mutW, mutR, tacMut, tacTokenID, tacAuthResult,
                   recv, arg>>

\* ------------------------------------------------------------------ Spec
\* Goroutines sharing one lock-enabled client whose ReauthFunc is set.
Step(p) ==
    \/ Request(p)
    \/ CallReauthenticate(p)
    \/ AuthenticatedHeaders(p)
    \/ HeadersWait(p)
    \/ ReadToken(p)
    \/ Do(p)
    \/ Reauthenticate(p)
    \/ ReauthWait(p)
    \/ Compare(p)
    \/ ReauthFuncReturns(p)
    \/ Finish(p)
    \/ ReauthReturn(p)

Next == \E p \in Procs : Step(p)

Spec == Init /\ [][Next]_vars

\* The steps a goroutine takes on its own once it is inside a call and not
\* inside ReauthFunc or the HTTP round trip: the Go scheduler runs every
\* runnable goroutine, sync.Mutex hands the lock to every Lock() in the end,
\* and a receive from a closed channel returns.
Proceeds(p) ==
    \/ AuthenticatedHeaders(p)
    \/ HeadersWait(p)
    \/ ReadToken(p)
    \/ Reauthenticate(p)
    \/ ReauthWait(p)
    \/ Compare(p)
    \/ Finish(p)
    \/ ReauthReturn(p)

\* Goroutines sharing a lock-enabled client that holds a stale token, with
\* those steps weakly fair (SpecFair).  Nothing is assumed of ReauthFunc or
\* of the server: neither has to return.
InitFair ==
    /\ TokenID = StaleToken
    /\ authResult = TokenID
    /\ ReauthFunc = TRUE
    /\ RetryBackoffFunc = FALSE
    /\ RetryFunc = FALSE
    /\ MaxBackoffRetries = 0
    /\ Throwaway = FALSE
    /\ useTokenLock = TRUE
    /\ JSONResponse = FALSE
    /\ JSONBody = "nil"
    /\ RawBody = "nil"
    /\ KeepResponseBody = FALSE
    /\ MoreHeaders = NoHeaders
    /\ OmitHeaders = {}
    /\ method = "GET"
    /\ OkCodes = NilOkCodes
    /\ bodyEnds = {TRUE}
    /\ server = {StatusOK, StatusUnauthorized}
    /\ InitCalls
    /\ InitStore
    /\ NoTac

\* Goroutine 1 issues a Request; the others call Reauthenticate themselves.
NextFair ==
    \E p \in Procs :
        \/ p = 1 /\ Request(p)
        \/ p # 1 /\ CallReauthenticate(p)
        \/ Do(p)
        \/ ReauthFuncReturns(p)
        \/ Proceeds(p)

SpecFair ==
    InitFair /\ [][NextFair]_vars /\ \A p \in Procs : WF_vars(Proceeds(p))

\* The same goroutines, whose contexts may be canceled at any time.
NextCtx == \E p \in Procs : Step(p) \/ Cancel(p)

SpecCtx == Init /\ [][NextCtx]_vars

\* One goroutine, every configuration of the client: with and without
\* locks, each hook set or nil, MaxBackoffRetries 0 (the default ceiling)
\* or explicit, with and without a token, with and without a decode target.
InitSeq ==
    /\ TokenID \in {NoToken, StaleToken}
    /\ authResult = TokenID
    /\ ReauthFunc \in BOOLEAN
    /\ RetryBackoffFunc \in BOOLEAN
    /\ RetryFunc \in BOOLEAN
    /\ MaxBackoffRetries \in 0..MaxCeiling
    /\ Throwaway = FALSE
    /\ useTokenLock \in BOOLEAN
    /\ JSONResponse \in BOOLEAN
    /\ JSONBody = "nil"
    /\ RawBody = "nil"
    /\ KeepResponseBody = FALSE
    /\ MoreHeaders = NoHeaders
    /\ OmitHeaders = {}
    /\ method = "GET"
    /\ OkCodes = NilOkCodes
    /\ bodyEnds = {TRUE}
    /\ server = ResponseCodes
    /\ InitCalls
    /\ InitStore
    /\ NoTac

NextSeq ==
    \E p \in {1} :
        \/ Request(p)
        \/ CallReauthenticate(p)
        \/ AuthenticatedHeaders(p)
        \/ ReadToken(p)
        \/ Do(p)
        \/ Reauthenticate(p)
        \/ Compare(p)
        \/ ReauthFuncReturns(p)
        \/ Finish(p)
        \/ ReauthReturn(p)

SpecSeq == InitSeq /\ [][NextSeq]_vars

\* One goroutine calling Request with every combination of bodies and
\* response options, on a lock-enabled client with each hook set or nil.
InitOpts ==
    /\ TokenID = StaleToken
    /\ authResult = TokenID
    /\ ReauthFunc \in BOOLEAN
    /\ RetryBackoffFunc \in BOOLEAN
    /\ RetryFunc \in BOOLEAN
    /\ MaxBackoffRetries = 1
    /\ Throwaway = FALSE
    /\ useTokenLock = TRUE
    /\ JSONResponse \in BOOLEAN
    /\ JSONBody \in {"nil", "value", "unmarshalable"}
    /\ RawBody \in {"nil", "Reader", "Seeker", "FailingSeeker"}
    /\ KeepResponseBody \in BOOLEAN
    /\ MoreHeaders = NoHeaders
    /\ OmitHeaders = {}
    /\ method = "GET"
    /\ OkCodes = NilOkCodes
    /\ bodyEnds = BOOLEAN
    /\ server = ResponseCodes
    /\ InitCalls
    /\ InitStore
    /\ NoTac

NextOpts ==
    \E p \in {1} :
        \/ Request(p)
        \/ AuthenticatedHeaders(p)
        \/ ReadToken(p)
        \/ Do(p)
        \/ Reauthenticate(p)
        \/ Compare(p)
        \/ ReauthFuncReturns(p)
        \/ Finish(p)
        \/ ReauthReturn(p)

SpecOpts == InitOpts /\ [][NextOpts]_vars

\* One goroutine calling Request with every choice of MoreHeaders and
\* OmitHeaders, with and without a JSONBody or a RawBody, on a client with
\* and without a token, throwaway or not.
InitHdr ==
    /\ TokenID \in {NoToken, StaleToken + 1}
    /\ authResult = TokenID
    /\ ReauthFunc = FALSE
    /\ RetryBackoffFunc = FALSE
    /\ RetryFunc = FALSE
    /\ MaxBackoffRetries = 0
    /\ Throwaway \in BOOLEAN
    /\ useTokenLock = TRUE
    /\ JSONResponse = FALSE
    /\ JSONBody \in {"nil", "value"}
    /\ RawBody \in {"nil", "Reader"}
    /\ KeepResponseBody = FALSE
    /\ MoreHeaders \in {[k \in S |-> CallerValue(k)] : S \in SUBSET HeaderKeys}
    /\ OmitHeaders \in SUBSET HeaderKeys
    /\ method = "GET"
    /\ OkCodes = NilOkCodes
    /\ bodyEnds = {TRUE}
    /\ server = {StatusOK, StatusUnauthorized}
    /\ InitCalls
    /\ InitStore
    /\ NoTac

NextHdr ==
    \E p \in {1} :
        \/ Request(p)
        \/ AuthenticatedHeaders(p)
        \/ ReadToken(p)
        \/ Do(p)

SpecHdr == InitHdr /\ [][NextHdr]_vars

\* The goroutines of Spec on a client that starts with or without a token,
\* each call with or without an X-Auth-Token of the caller in MoreHeaders.
InitTok ==
    /\ TokenID \in {NoToken, StaleToken}
    /\ authResult = TokenID
    /\ ReauthFunc = TRUE
    /\ RetryBackoffFunc = FALSE
    /\ RetryFunc = FALSE
    /\ MaxBackoffRetries = 0
    /\ Throwaway = FALSE
    /\ useTokenLock = TRUE
    /\ JSONResponse = FALSE
    /\ JSONBody = "nil"
    /\ RawBody = "nil"
    /\ KeepResponseBody = FALSE
    /\ MoreHeaders \in {[k \in S |-> CallerValue(k)] : S \in SUBSET {"X-Auth-Token"}}
    /\ OmitHeaders = {}
    /\ method = "GET"
    /\ OkCodes = NilOkCodes
    /\ bodyEnds = {TRUE}
    /\ server = {StatusOK, StatusUnauthorized}
    /\ InitCalls
    /\ InitStore
    /\ NoTac

SpecTok == InitTok /\ [][Next]_vars

\* One goroutine calling Request with every method, with no OkCodes or
\* with a list of the caller, with and without a JSONResponse, ReauthFunc
\* and RetryFunc, against a server that answers with any status.
Statuses == {StatusOK, StatusCreated, StatusAccepted, StatusNoContent,
             StatusUnauthorized, StatusTooManyRequests, StatusServerError}

InitCodes ==
    /\ TokenID = StaleToken
    /\ authResult = TokenID
    /\ ReauthFunc \in BOOLEAN
    /\ RetryBackoffFunc = FALSE
    /\ RetryFunc \in BOOLEAN
    /\ MaxBackoffRetries = 0
    /\ Throwaway = FALSE
    /\ useTokenLock = TRUE
    /\ JSONResponse \in BOOLEAN
    /\ JSONBody = "nil"
    /\ RawBody = "nil"
    /\ KeepResponseBody = FALSE
    /\ MoreHeaders = NoHeaders
    /\ OmitHeaders = {}
    /\ method \in Methods
    /\ OkCodes \in {NilOkCodes, {}, {StatusOK}, {StatusNoContent},
                     {StatusOK, StatusServerError},
                     {StatusCreated, StatusUnauthorized}}
    /\ bodyEnds = BOOLEAN
    /\ server = Statuses \cup {TransportError}
    /\ InitCalls
    /\ InitStore
    /\ NoTac

SpecCodes == InitCodes /\ [][NextOpts]_vars

\* One goroutine and a client on which UseTokenLock was never called, with
\* or without ReauthFunc, with or without a token.
InitNoLock ==
    /\ TokenID \in {NoToken, StaleToken}
    /\ authResult = TokenID
    /\ ReauthFunc \in BOOLEAN
    /\ RetryBackoffFunc = FALSE
    /\ RetryFunc \in BOOLEAN
    /\ MaxBackoffRetries = 0
    /\ Throwaway = FALSE
    /\ useTokenLock = FALSE
    /\ JSONResponse = FALSE
    /\ JSONBody = "nil"
    /\ RawBody = "nil"
    /\ KeepResponseBody = FALSE
    /\ MoreHeaders = NoHeaders
    /\ OmitHeaders = {}
    /\ method = "GET"
    /\ OkCodes = NilOkCodes
    /\ bodyEnds = {TRUE}
    /\ server = {TransportError, StatusOK, StatusUnauthorized}
    /\ InitCalls
    /\ InitStore
    /\ NoTac

NextNoLock ==
    \E p \in {1} :
        \/ Request(p)
        \/ CallReauthenticate(p)
        \/ AuthenticatedHeaders(p)
        \/ ReadToken(p)
        \/ Do(p)
        \/ Reauthenticate(p)
        \/ ReauthFuncReturns(p)
        \/ ReauthReturn(p)

SpecNoLock == InitNoLock /\ [][NextNoLock]_vars

\* A request issued from inside ReauthFunc through tac, a throwaway copy of
\* the client.  Goroutine 2 is the owner of the attempt in flight, inside the
\* parent's ReauthFunc; the call it makes there is shown as goroutine 1, and
\* ReauthFunc returns only after that call has.  tac is a copy of the
\* struct, so it shares reauthmut and mut with its parent.  The client
\* fields are those of tac: Throwaway is set, and ReauthFunc is nil when the
\* copy was stripped of it; the owner is past its reads of the fields on
\* which tac and its parent differ.
InitThrow ==
    /\ TokenID = StaleToken
    /\ authResult = TokenID
    /\ ReauthFunc \in BOOLEAN
    /\ RetryBackoffFunc \in BOOLEAN
    /\ RetryFunc \in BOOLEAN
    /\ MaxBackoffRetries = 1
    /\ Throwaway = TRUE
    /\ useTokenLock = TRUE
    /\ JSONResponse \in BOOLEAN
    /\ JSONBody = "nil"
    /\ RawBody = "nil"
    /\ KeepResponseBody = FALSE
    /\ MoreHeaders = NoHeaders
    /\ OmitHeaders \in {{}, {"X-Auth-Token"}}
    /\ method = "GET"
    /\ OkCodes = NilOkCodes
    /\ bodyEnds = {TRUE}
    /\ server = ResponseCodes
    /\ ongoing = 1
    /\ futures = <<newReauthFuture>>
    /\ attempts = <<[NewAttempt(NoToken) EXCEPT
                       !.decided = TRUE, !.seen = TokenID, !.invoked = TRUE]>>
    /\ reauthFuncCalls = 1
    /\ pc = [p \in Procs |-> IF p = 2 THEN "rfunc" ELSE "idle"]
    /\ op = [p \in Procs |-> IF p = 2 THEN "Reauthenticate" ELSE "none"]
    /\ future = [p \in Procs |-> IF p = 2 THEN 1 ELSE NoFuture]
    /\ calls = [p \in Procs |->
                  IF p = 2 THEN [NoCalls EXCEPT !.reauth = 1, !.reauthFunc = 1]
                  ELSE NoCalls]
    /\ state = [p \in Procs |-> [hasReauthenticated |-> FALSE, retries |-> 0]]
    /\ prereqtok = [p \in Procs |-> NoToken]
    /\ previousToken = [p \in Procs |-> NoToken]
    /\ hdrOngoing = [p \in Procs |-> NoFuture]
    /\ myOngoing = [p \in Procs |-> NoFuture]
    /\ err = [p \in Procs |-> ErrNil]
    /\ respErr = [p \in Procs |-> ErrNil]
    /\ nested = [p \in Procs |-> FALSE]
    /\ result = [p \in Procs |-> Running]
    /\ ctxDone = [p \in Procs |-> FALSE]
    /\ offset = [p \in Procs |-> 0]
    /\ reqHeader = [p \in Procs |-> NoHeaders]
    /\ bodies = [p \in Procs |-> NoBodies]
    /\ InitStore
    /\ NoTac

NextThrow ==
    \/ \E p \in {1} :
          \/ Request(p)
          \/ AuthenticatedHeaders(p)
          \/ Do(p)
          \/ Reauthenticate(p)
    \/ \E p \in {2} :
          \/ pc[1] = "done" /\ ReauthFuncReturns(p)
          \/ Finish(p)
          \/ ReauthReturn(p)

SpecThrow == InitThrow /\ [][NextThrow]_vars

\* Goroutines calling the operations of the token store, again and again,
\* on a lock-enabled client and on a second one, tac, which shares the
\* client's mut (a copy of the struct) or has a mut of its own.
InitLocks ==
    /\ TokenID = StaleToken
    /\ authResult = TokenID
    /\ ReauthFunc = TRUE
    /\ RetryBackoffFunc = FALSE
    /\ RetryFunc = FALSE
    /\ MaxBackoffRetries = 0
    /\ Throwaway = FALSE
    /\ useTokenLock = TRUE
    /\ JSONResponse = FALSE
    /\ JSONBody = "nil"
    /\ RawBody = "nil"
    /\ KeepResponseBody = FALSE
    /\ MoreHeaders = NoHeaders
    /\ OmitHeaders = {}
    /\ method = "GET"
    /\ OkCodes = NilOkCodes
    /\ bodyEnds = {TRUE}
    /\ server = {StatusOK}
    /\ InitCalls
    /\ InitStore
    /\ tacMut \in {"same", "own"}
    /\ tacTokenID = NoToken
    /\ tacAuthResult = NilAuthResult

NextLocks ==
    \E p \in Procs :
        \/ StoreCall(p)
        \/ MutLock(p)
        \/ OtherRLock(p)
        \/ WriteTokenID(p)
        \/ WriteAuthResult(p)
        \/ MutUnlock(p)
        \/ MutRLock(p)
        \/ ReadField(p)
        \/ CompareRead(p)
        \/ StoreReturn(p)

SpecLocks == InitLocks /\ [][NextLocks]_vars

\* ReauthFunc in steps.  The owner first issues a request through tac, a
\* throwaway copy of the client with ReauthFunc zeroed that shares reauthmut
\* and mut with it, and, when that request succeeds, stores the new token in
\* the client with SetTokenAndAuthResult or CopyTokenFrom.

\* Mutant: Reauthenticate keeps reauthmut from its first Lock to the Unlock
\* of its closing section.
holdsReauthmut_UntilFinish(p) ==
    pc[p] \in {"compare", "rfunc", "tacsend", "tacstore", "tacwrite", "finish"}

\* The positions between steps at which goroutine p holds reauthmut: none.
\* Every section on reauthmut (IsThrowaway, the read of ongoing in
\* AuthenticatedHeaders, the two sections of Reauthenticate) locks and
\* unlocks within one step, and line 285 unlocks before ReauthFunc is called.
holdsReauthmut(p) == FALSE

\* reauthmut can be taken.
reauthmutFree == \A q \in Procs : ~holdsReauthmut(q)

\* tac.AuthenticatedHeaders inside ReauthFunc: IsThrowaway takes
\* reauthmut.RLock and no header is returned.
TacHeaders(p) ==
    /\ pc[p] = "rfunc"
    /\ reauthmutFree
    /\ pc' = [pc EXCEPT ![p] = "tacsend"]
    /\ UNCHANGED <<configVars, requestVars, lockVars, storeVars, reauthVars,
                   op, state, prereqtok, previousToken, hdrOngoing, future,
                   myOngoing, err, respErr, nested, result, ctxDone, calls>>

\* The request of tac is answered.  tac has no ReauthFunc: any status but
\* an accepted one makes ReauthFunc fail, having written nothing.
TacDo(p) ==
    /\ pc[p] = "tacsend"
    /\ \E code \in server :
         IF code = StatusOK
         THEN /\ pc' = [pc EXCEPT ![p] = "tacstore"]
              /\ UNCHANGED <<err, attempts>>
         ELSE LET e == ErrReauthFunc(reauthFuncCalls) IN
              /\ err' = [err EXCEPT ![p] = e]
              /\ attempts' = [attempts EXCEPT ![future[p]].produced = e]
              /\ pc' = [pc EXCEPT ![p] = "finish"]
    /\ UNCHANGED <<configVars, requestVars, lockVars, storeVars, ongoing,
                   futures, reauthFuncCalls, op, state, prereqtok,
                   previousToken, hdrOngoing, future, myOngoing, respErr,
                   nested, result, ctxDone, calls>>

\* client.SetTokenAndAuthResult(r) or client.CopyTokenFrom(tac), called by
\* ReauthFunc: client.mut.Lock().  tac.mut is client.mut, so CopyTokenFrom
\* takes no second lock.
OwnerLock(p) ==
    /\ pc[p] = "tacstore"
    /\ CanLock("client")
    /\ mutW' = [mutW EXCEPT !["client"] = p]
    /\ pc' = [pc EXCEPT ![p] = "tacwrite"]
    /\ UNCHANGED <<configVars, requestVars, storeVars, reauthVars, callVars,
                   op, result, mutR, tacMut, tacTokenID, tacAuthResult, recv,
                   arg, seen>>

\* The two assignments under the lock, the deferred Unlock, and the return
\* of ReauthFunc with a nil error.
OwnerWrite(p) ==
    /\ pc[p] = "tacwrite"
    /\ TokenID' = TokenID + 1
    /\ authResult' = TokenID + 1
    /\ mutW' = [mutW EXCEPT !["client"] = Unlocked]
    /\ err' = [err EXCEPT ![p] = ErrNil]
    /\ attempts' = [attempts EXCEPT ![future[p]].produced = ErrNil]
    /\ pc' = [pc EXCEPT ![p] = "finish"]
    /\ UNCHANGED <<configVars, requestVars, ongoing, futures, reauthFuncCalls,
                   op, state, prereqtok, previousToken, hdrOngoing, future,
                   myOngoing, respErr, nested, result, ctxDone, calls, mutR,
                   tacMut, tacTokenID, tacAuthResult, recv, arg, seen>>

\* The steps of a goroutine on the client, each section on a lock taken
\* only when the lock can be, while ReauthFunc runs in steps.
OwnerStep(p) ==
    \/ Request(p)
    \/ CallReauthenticate(p)
    \/ reauthmutFree /\ AuthenticatedHeaders(p)
    \/ HeadersWait(p)
    \/ CanRLock("client") /\ ReadToken(p)
    \/ Do(p)
    \/ reauthmutFree /\ Reauthenticate(p)
    \/ ReauthWait(p)
    \/ Compare(p)
    \/ TacHeaders(p)
    \/ TacDo(p)
    \/ OwnerLock(p)
    \/ OwnerWrite(p)
    \/ reauthmutFree /\ Finish(p)
    \/ ReauthReturn(p)

NextOwner == \E p \in Procs : OwnerStep(p)

\* Goroutines sharing a lock-enabled client that holds a stale token, each
\* calling Request or Reauthenticate; whoever owns the attempt runs
\* ReauthFunc in steps.
SpecOwner == InitFair /\ [][NextOwner]_vars

\* ================================================================ claims
ReauthPcs == {"reauth", "rwait", "compare", "rfunc", "finish", "rreturn"}

\* The goroutines that own the reauthentication attempt in flight.
Owners == {p \in Procs : pc[p] \in {"compare", "rfunc", "finish"}}

InReauthFunc == {p \in Procs : pc[p] = "rfunc"}

\* p has returned from the Reauthenticate call it made.
Continued(p) == calls[p].reauth >= 1 /\ pc[p] \notin ReauthPcs

\* The attempt p took part in, as owner or as waiter.
attemptOf(p) == IF myOngoing[p] # NoFuture THEN myOngoing[p] ELSE future[p]

Succeeded(a) == a.invoked /\ IsNil(a.produced)

Failed(a) == a.invoked /\ a.produced.k = "reauthfunc"

\* C1: on a lock-enabled client at most one ReauthFunc started by
\* Reauthenticate runs at any instant, and reauthmut.ongoing is non-nil
\* exactly while one owner is between installing it and clearing it: it then
\* is that owner's future, not yet done.
C1_SingleFlight ==
    /\ Cardinality(InReauthFunc) <= 1
    /\ Cardinality(Owners) <= 1
    /\ (ongoing # NoFuture) <=> (Owners # {})
    /\ ongoing # NoFuture =>
          /\ ~futures[ongoing].done
          /\ \A p \in Owners : future[p] = ongoing

C1_Witness ==
    \E p, q \in Procs :
        /\ pc[p] = "rfunc" /\ op[p] = "Request"
        /\ pc[q] = "reauth" /\ ongoing = future[p]

\* Every goroutine runs Request and got 401 for a request sent with the
\* stale token.
AllStale401 ==
    \A p \in Procs :
        /\ op[p] = "Request"
        /\ calls[p].reauth >= 1
        /\ previousToken[p] = StaleToken

\* C2 as stated: when N >= 2 Request calls each got 401 for a request sent
\* with the same stale token, ReauthFunc is invoked exactly once in total and
\* each call continues with the outcome of that one invocation.
C2_ExactlyOneReauthFunc ==
    (AllStale401 /\ \A p \in Procs : Continued(p)) =>
        /\ reauthFuncCalls = 1
        /\ \A p \in Procs :
              state[p].hasReauthenticated <=>
                  (\E i \in DOMAIN attempts : Succeeded(attempts[i]))

\* C2 as amended: the N calls never run ReauthFunc at once, and each call
\* continues with the outcome of the attempt it owned or waited on: it
\* retries when that attempt returned nil and returns
\* ErrUnableToReauthenticate with the attempt's error when it failed.  Once an
\* invocation has succeeded and replaced the stale token every later attempt
\* skips ReauthFunc, so at most one invocation succeeds; an attempt made after
\* a failed one invokes ReauthFunc again, so the total is between 1 and N.
C2_SharedOutcome ==
    AllStale401 =>
        /\ Cardinality(InReauthFunc) <= 1
        /\ reauthFuncCalls <= NumProcs
        /\ \A i, j \in DOMAIN attempts :
              (i < j /\ Succeeded(attempts[i])) => ~attempts[j].invoked
        /\ \A p \in Procs :
              Continued(p) =>
                  LET a == attempts[attemptOf(p)] IN
                  /\ reauthFuncCalls >= 1
                  /\ myOngoing[p] # NoFuture => calls[p].reauthFunc = 0
                  /\ IF IsNil(a.produced)
                     THEN /\ state[p].hasReauthenticated
                          /\ pc[p] = "done" => calls[p].dispatch = 2
                     ELSE /\ pc[p] = "done"
                          /\ calls[p].dispatch = 1
                          /\ result[p] = ErrUnableToReauthenticate(
                                ErrUnexpectedResponseCode(StatusUnauthorized),
                                a.produced)

\* A caller that arrived after the first attempt had succeeded: it owned a
\* second attempt, skipped ReauthFunc and retried like the first.
C2_Witness ==
    /\ AllStale401
    /\ \A p \in Procs : pc[p] = "done" /\ calls[p].dispatch = 2
    /\ \E i, j \in DOMAIN attempts :
          /\ i < j
          /\ Succeeded(attempts[i])
          /\ attempts[j].finished /\ ~attempts[j].invoked

\* C4: a Reauthenticate caller that found a marker in place never invokes
\* ReauthFunc; it returns only once that future is done, with the error
\* (nil or not) the owner's attempt produced.
C4_WaiterGetsOwnersResult ==
    \A p \in Procs :
        /\ pc[p] = "rwait" =>
              /\ myOngoing[p] # NoFuture
              /\ future[p] = NoFuture
              /\ calls[p].reauthFunc = 0
        /\ (pc[p] = "rreturn" /\ myOngoing[p] # NoFuture) =>
              /\ futures[myOngoing[p]].done
              /\ attempts[myOngoing[p]].finished
              /\ err[p] = attempts[myOngoing[p]].produced
              /\ future[p] = NoFuture
              /\ calls[p].reauthFunc = 0

C4_Witness ==
    \E p \in Procs :
        /\ pc[p] = "rreturn"
        /\ myOngoing[p] # NoFuture
        /\ err[p].k = "reauthfunc"

\* C6: the owner invokes ReauthFunc iff previousToken is empty or equals the
\* token in the store; otherwise it skips ReauthFunc, the marker stays
\* installed until the owner clears it, the owner and every waiter get nil,
\* and the store is as it was.
C6_CompareAndSkip ==
    \A i \in DOMAIN attempts :
        LET a == attempts[i] IN
        /\ a.decided => (a.invoked <=> (a.prev = NoToken \/ a.seen = a.prev))
        /\ (a.decided /\ ~a.invoked) =>
              /\ IsNil(a.produced)
              /\ ~a.finished => (ongoing = i /\ ~futures[i].done)
              /\ a.finished =>
                    /\ ongoing # i
                    /\ futures[i].done /\ IsNil(futures[i].err)
                    /\ a.after = a.before
                    /\ a.after[1] = a.seen
              /\ \A p \in Procs :
                    (calls[p].reauth >= 1 /\ attemptOf(p) = i
                        /\ pc[p] \notin {"rwait", "compare"}) => IsNil(err[p])

\* An attempt whose owner skipped ReauthFunc, and a waiter that got its nil.
C6_Witness ==
    \E i \in DOMAIN attempts, p \in Procs :
        /\ attempts[i].finished /\ ~attempts[i].invoked
        /\ attempts[i].prev # NoToken
        /\ myOngoing[p] = i /\ pc[p] = "done" /\ IsNil(result[p])

\* C7: when the owner's ReauthFunc returns an error, the future carries that
\* error, the owner and every waiter of the attempt return it, and TokenID
\* and authResult are those from before the attempt.
C7_FailureLeavesStore ==
    \A i \in DOMAIN attempts :
        LET a == attempts[i] IN
        Failed(a) =>
            /\ ~a.finished => <<TokenID, authResult>> = a.before
            /\ a.finished =>
                  /\ a.after = a.before
                  /\ futures[i].done
                  /\ futures[i].err = a.produced
            /\ \A p \in Procs :
                  (calls[p].reauth >= 1 /\ attemptOf(p) = i
                      /\ pc[p] \notin {"rwait", "compare", "rfunc"}) =>
                          err[p] = a.produced

C7_Witness ==
    \E i \in DOMAIN attempts, p, q \in Procs :
        /\ Failed(attempts[i]) /\ attempts[i].finished
        /\ future[p] = i /\ pc[p] = "done" /\ result[p].k = "unable"
        /\ myOngoing[q] = i /\ pc[q] = "done" /\ result[q] = attempts[i].produced

\* C3: within one Request call Reauthenticate, and so ReauthFunc, is invoked
\* at most once, whatever the answers of the server and of the hooks.
C3_AtMostOneReauth ==
    \A p \in Procs : calls[p].reauth <= 1 /\ calls[p].reauthFunc <= 1

\* The retried request was answered 401 again and went to RetryFunc.
C3_Witness ==
    \E p \in Procs :
        /\ calls[p].reauth = 1 /\ calls[p].dispatch = 2
        /\ calls[p].last = StatusUnauthorized
        /\ result[p] = ErrErrorAfterReauthentication(ErrHook("RetryFunc", 1))

\* C5 as stated: a caller waiting on an in-flight reauthentication whose
\* context is canceled can stop waiting and return, also while the owner's
\* ReauthFunc is still running.
C5_CanceledWaiterReturns ==
    \A p \in Procs :
        (ctxDone[p] /\ pc[p] \in {"hdrwait", "rwait"} /\ InReauthFunc # {}) =>
            ENABLED (HeadersWait(p) \/ ReauthWait(p))

\* The unexpected-response error of the latest answer, as Request returns it.
LastUnexpected(p) ==
    {ErrUnexpectedResponseCode(calls[p].last),
     ErrErrorAfterReauthentication(ErrUnexpectedResponseCode(calls[p].last))}

\* C8 as stated: with ceiling K, the (K+1)-th consecutive 429/498 answer is
\* returned to the caller as an error and RetryBackoffFunc is invoked at most
\* K times, in every configuration (here: once the K backoffs were used).
C8_CeilingSurfacesError ==
    \A p \in Procs :
        /\ calls[p].backoff <= maxTries
        /\ (calls[p].backoff = maxTries /\ calls[p].run429 >= maxTries + 1) =>
              (pc[p] = "done" /\ ~IsNil(result[p]))

\* C8 as amended: RetryBackoffFunc is invoked at most K times in every
\* configuration.  Without RetryFunc the (K+1)-th consecutive 429/498 answer
\* ends the call with its unexpected-response error.  With RetryFunc that
\* answer, like every rate-limit answer the backoff did not take, is handed
\* to RetryFunc, which decides between an error and another dispatch.
C8_CeilingBoundsBackoff ==
    \A p \in Procs :
        /\ calls[p].backoff <= maxTries
        /\ (~RetryFunc /\ calls[p].run429 >= maxTries + 1) =>
              /\ calls[p].run429 = maxTries + 1
              /\ calls[p].backoff = maxTries
              /\ pc[p] = "done"
              /\ result[p] \in LastUnexpected(p)
        /\ (RetryFunc /\ calls[p].run429 >= maxTries + 1) =>
              calls[p].retryFunc >= calls[p].run429 - maxTries

\* The default ceiling: 60 backoffs, then the 61st answer is the error.
C8_Witness ==
    \E p \in Procs :
        /\ MaxBackoffRetries = 0 /\ ~RetryFunc
        /\ calls[p].run429 = DefaultMaxBackoffRetries + 1
        /\ calls[p].backoff = DefaultMaxBackoffRetries
        /\ pc[p] = "done"

HookMissing(p) ==
    /\ calls[p].dispatch >= 1
    /\ \/ calls[p].last = StatusUnauthorized /\ ~ReauthFunc
       \/ calls[p].last \in RateLimited /\ ~RetryBackoffFunc
       \/ calls[p].last \in {StatusServerError, TransportError} /\ ~RetryFunc

LastFailure(p) ==
    IF calls[p].last = TransportError
    THEN {ErrTransport, ErrErrorAfterReauthentication(ErrTransport)}
    ELSE LastUnexpected(p)

\* C10 as stated: a failure whose class has no hook makes Request return the
\* error, with no further dispatch.
C10_NoHookNoRetry ==
    \A p \in Procs :
        HookMissing(p) => (pc[p] = "done" /\ ~IsNil(result[p]))

\* C10 as amended: a failure whose class has no hook makes Request return
\* that error at once when RetryFunc is not set either.  RetryFunc is the
\* catch-all: when set it is called for a 401 without ReauthFunc and for a
\* 429/498 without RetryBackoffFunc too, and the request is dispatched again
\* when it answers nil.
C10_NoHookAtAllNoRetry ==
    \A p \in Procs :
        HookMissing(p) =>
            IF RetryFunc
            THEN /\ calls[p].retryFunc >= 1
                 /\ pc[p] = "done" => result[p].k \in {"hook", "after"}
            ELSE /\ pc[p] = "done"
                 /\ result[p] \in LastFailure(p)

C10_Witness ==
    \E p \in Procs :
        /\ ~ReauthFunc /\ ~RetryFunc /\ RetryBackoffFunc
        /\ calls[p].last = StatusUnauthorized
        /\ calls[p].dispatch = 2 /\ calls[p].backoff = 1
        /\ pc[p] = "done"

Carries(e, x) ==
    \/ "ErrOriginal" \in DOMAIN e /\ e.ErrOriginal = x
    \/ "ErrReauth" \in DOMAIN e /\ e.ErrReauth = x

\* C12 as stated: when the reauthentication succeeded and the retried
\* request failed, the error Request returns holds the unexpected-response
\* error of the original 401 as well as the error of the retried call.
C12_BothErrorsPreserved ==
    \A p \in Procs :
        (pc[p] = "done" /\ state[p].hasReauthenticated /\ ~IsNil(result[p])) =>
            /\ result[p].k = "after"
            /\ Carries(result[p], respErr[p])

\* C13 as stated: every dispatch after the first of a request whose RawBody
\* is a seekable stream (after the reauthentication, after RetryBackoffFunc
\* and after RetryFunc alike) begins with the stream at offset 0.
C13_RetriesRewind ==
    \A p \in Procs :
        (RawBody = "Seeker" /\ calls[p].dispatch >= 2) => calls[p].from = 0

\* C14 as stated: when a request whose RawBody cannot be rewound (not an
\* io.Seeker, or one whose Seek fails) was read by the transport, got 401 and
\* the reauthentication succeeded, Request returns an error and the request
\* is not dispatched again.
C14_NonRewindableNotResent ==
    \A p \in Procs :
        (/\ RawBody \in {"Reader", "FailingSeeker"}
         /\ op[p] = "Request" /\ Continued(p) /\ IsNil(err[p])
         /\ offset[p] > 0) =>
            /\ pc[p] = "done"
            /\ ~IsNil(result[p])
            /\ calls[p].last = StatusUnauthorized
            /\ calls[p].from = 0

\* The options of the call break the contract of RequestOpts.
Misconfigured ==
    \/ JSONBody # "nil" /\ RawBody # "nil"
    \/ KeepResponseBody /\ JSONResponse

\* A Request that has made no dispatch, called no hook and touched neither
\* the token store nor the marker.
NothingDone(p) ==
    /\ calls[p] = NoCalls
    /\ state[p].retries = 0
    /\ reauthFuncCalls = 0
    /\ <<TokenID, authResult>> = <<StaleToken, StaleToken>>
    /\ ongoing = NoFuture /\ futures = <<>>

C16_HeadersWaitForReauth ==
    \A p \in Procs :
        (~Throwaway /\ useTokenLock /\ hdrOngoing[p] # NoFuture
            /\ pc[p] \in {"token", "send"}) =>
            LET a == attempts[hdrOngoing[p]] IN
            /\ futures[hdrOngoing[p]].done
            /\ a.finished
            /\ pc[p] = "send" =>
                  /\ a.after[1] <= prereqtok[p] /\ prereqtok[p] <= TokenID
                  /\ reqHeader[p]["X-Auth-Token"] = <<"token", prereqtok[p]>>
                  /\ Succeeded(a) => prereqtok[p] > a.before[1]

\* A Request that waited for an attempt which replaced the stale token, and
\* is about to dispatch with the new one.
C16_Witness ==
    \E p \in Procs :
        /\ pc[p] = "send" /\ hdrOngoing[p] # NoFuture
        /\ Succeeded(attempts[hdrOngoing[p]])
        /\ attempts[hdrOngoing[p]].before[1] = StaleToken
        /\ prereqtok[p] = StaleToken + 1
        /\ calls[p].dispatch = 0

\* The request made through tac has not returned and cannot take a step.
Stuck(p) == pc[p] \notin {"idle", "done"} /\ ~ENABLED Step(p)

\* C17 as stated: a client whose Throwaway flag is set never waits on the
\* marker and never calls Reauthenticate; AuthenticatedHeaders gives it no
\* header; the request made through it from inside ReauthFunc is never
\* blocked: it runs, up to its return, while the parent's attempt is running.
C17_ThrowawayNeverParticipates ==
    \A p \in Procs :
        (Throwaway /\ op[p] = "Request") =>
            /\ pc[p] \notin {"hdrwait", "token"} \cup ReauthPcs
            /\ hdrOngoing[p] = NoFuture
            /\ "X-Auth-Token" \notin DOMAIN reqHeader[p]
            /\ calls[p].reauth = 0
            /\ ~Stuck(p)
            /\ pc[p] # "done" => attempts[1].produced = Running

\* C17 as amended: the Throwaway flag keeps the client out of the wait in
\* AuthenticatedHeaders, which gives it no header.  What keeps it out of
\* Reauthenticate is a nil ReauthFunc: the 401 branch of doRequest looks at
\* ReauthFunc and hasReauthenticated, not at Throwaway.  The request made
\* from inside ReauthFunc through a throwaway copy without ReauthFunc is
\* never blocked: it runs, up to its return, while the parent's attempt is
\* running.
C17_StrippedThrowawayNeverParticipates ==
    \A p \in Procs :
        (Throwaway /\ op[p] = "Request") =>
            /\ pc[p] \notin {"hdrwait", "token"}
            /\ hdrOngoing[p] = NoFuture
            /\ "X-Auth-Token" \notin DOMAIN reqHeader[p]
            /\ ~ReauthFunc =>
                  /\ pc[p] \notin ReauthPcs
                  /\ calls[p].reauth = 0
                  /\ ~Stuck(p)
                  /\ pc[p] # "done" => attempts[1].produced = Running

\* The stripped copy got 401, returned its error, and the parent's
\* ReauthFunc is still running.
C17_Witness ==
    \E p \in Procs :
        /\ Throwaway /\ ~ReauthFunc /\ op[p] = "Request"
        /\ pc[p] = "done" /\ calls[p].last = StatusUnauthorized
        /\ result[p] = ErrUnexpectedResponseCode(StatusUnauthorized)
        /\ ongoing = 1 /\ ~futures[1].done /\ pc[2] = "rfunc"

\* The store of c holds a token together with its own authentication result.
Consistent(c) == authOf(c) = NilAuthResult \/ authOf(c) = tokenOf(c)

\* C18 as stated: with a lock installed, whenever a reader is about to read
\* the store of a client (Token and GetAuthResult holding the read lock,
\* and the comparison of TokenID in Reauthenticate), authResult is nil or
\* the result of the token in TokenID.
C18_ReadersSeeMatchingPair ==
    \A p \in Procs :
        pc[p] \in {"read", "compare"} => Consistent(recv[p])

\* C19: CopyTokenFrom between two clients that share one mut takes the lock
\* once and never asks for the read lock of other; holding the lock it can
\* always take its next step, and when it unlocks, the receiver's TokenID
\* and authResult are those of other.
C19_CopyTokenFromSharedLock ==
    \A p \in Procs :
        (op[p] = "CopyTokenFrom" /\ mutOf(recv[p]) = mutOf(otherOf(recv[p]))) =>
            /\ pc[p] # "rlockother"
            /\ p \notin mutR[mutOf(recv[p])]
            /\ pc[p] \in {"tokenid", "authresult", "unlock"} =>
                  /\ mutW[mutOf(recv[p])] = p
                  /\ ENABLED (WriteTokenID(p) \/ WriteAuthResult(p) \/ MutUnlock(p))
            /\ pc[p] = "unlock" =>
                  /\ tokenOf(recv[p]) = tokenOf(otherOf(recv[p]))
                  /\ authOf(recv[p]) = authOf(otherOf(recv[p]))

\* The client has copied a token and its result from the copy that shares
\* its lock, and is about to unlock.
C19_Witness ==
    \E p \in Procs :
        /\ op[p] = "CopyTokenFrom" /\ recv[p] = "client" /\ tacMut = "same"
        /\ pc[p] = "unlock"
        /\ <<TokenID, authResult>> = <<StaleToken + 1, StaleToken + 1>>
        /\ <<tacTokenID, tacAuthResult>> = <<TokenID, authResult>>

\* The request of goroutine p was dispatched: reqHeader[p] is the header it
\* was dispatched with.
Dispatched(p) == pc[p] = "done" /\ calls[p].dispatch >= 1

Canonical(S) == {CanonicalHeaderKey(k) : k \in S}

DefaultKeys == {"Content-Type", "Accept", "User-Agent"}

\* The defaults, overridden by MoreHeaders: a default header that
\* MoreHeaders does not name is application/json for Accept, the user agent
\* for User-Agent, and Content-Type is there only with a JSONBody; a header
\* that MoreHeaders names carries a value the caller gave under that name.
DefaultsThenMore(h, k) ==
    IF k \in Canonical(DOMAIN MoreHeaders)
    THEN /\ k \in DOMAIN h
         /\ \E m \in DOMAIN MoreHeaders :
               CanonicalHeaderKey(m) = k /\ h[k] = MoreHeaders[m]
    ELSE CASE k = "Accept" -> k \in DOMAIN h /\ h[k] = applicationJSON
           [] k = "User-Agent" -> k \in DOMAIN h /\ h[k] = UserAgent
           [] k = "Content-Type" ->
                IF JSONBody # "nil"
                THEN k \in DOMAIN h /\ h[k] = applicationJSON
                ELSE k \notin DOMAIN h
           [] OTHER -> TRUE

AttachesToken == ~Throwaway /\ TokenID # NoToken

C21_OmittedTokenNotSent ==
    \A p \in Procs :
        (Dispatched(p) /\ "X-Auth-Token" \in Canonical(OmitHeaders)) =>
            "X-Auth-Token" \notin DOMAIN reqHeader[p]

Innermost(p) ==
    IF result[p].k = "after" THEN result[p].ErrOriginal ELSE result[p]

\* C23: a Request that got 401 and whose reauthentication succeeded called
\* Reauthenticate once and ReauthFunc once, and the store holds a token
\* other than the one the 401 answered; the request is dispatched once more
\* for the reauthentication (beside the first dispatch and one per hook
\* that answered nil), every dispatch after it carries the new token, and
\* when the last answer is acceptable and needs no decoding the caller gets
\* a nil error.
C23_RetriedOnceWithNewToken ==
    \A p \in Procs :
        (op[p] = "Request" /\ state[p].hasReauthenticated) =>
            /\ calls[p].reauth = 1
            /\ reauthFuncCalls = 1
            /\ TokenID # previousToken[p]
            /\ pc[p] \in {"send", "done"} => prereqtok[p] = TokenID
            /\ pc[p] = "done" =>
                  /\ calls[p].dispatch =
                        2 + state[p].retries
                          - (IF Innermost(p).k = "hook" THEN 1 ELSE 0)
                  /\ (~RetryFunc /\ ~RetryBackoffFunc) => calls[p].dispatch = 2
                  /\ (calls[p].last \in okc
                        /\ (~JSONResponse \/ calls[p].last = StatusNoContent)) =>
                        IsNil(result[p])

\* The stale token was answered 401, ReauthFunc installed a new one, and
\* the one retry, sent with the new token, was answered 200.
C23_Witness ==
    \E p \in Procs :
        /\ op[p] = "Request" /\ pc[p] = "done"
        /\ state[p].hasReauthenticated
        /\ previousToken[p] = StaleToken
        /\ prereqtok[p] = StaleToken + 1
        /\ calls[p].dispatch = 2 /\ calls[p].last = StatusOK
        /\ reauthFuncCalls = 1
        /\ IsNil(result[p])

\* RetryBackoffFunc was invoked in this step of goroutine p.
BackoffInvoked(p) == calls'[p].backoff = calls[p].backoff + 1

\* A finished call does nothing more: no dispatch, no hook, and its result
\* stays.
DoneIsFinal(p) ==
    pc[p] = "done" =>
        /\ pc'[p] = "done"
        /\ calls'[p] = calls[p]
        /\ state'[p] = state[p]
        /\ result'[p] = result[p]

Ceiling ==
    IF MaxBackoffRetries = 0 THEN DefaultMaxBackoffRetries ELSE MaxBackoffRetries

\* Goroutine p dispatched in this step and was answered 429 or 498.
Answered429(p) ==
    calls'[p].dispatch = calls[p].dispatch + 1 /\ calls'[p].last \in RateLimited

\* C25: with RetryBackoffFunc set, a 429 that arrives while the count of
\* failures is below the ceiling is handed to RetryBackoffFunc; as long as
\* RetryFunc has not been invoked its attempt number is the number of the
\* invocation, 1, 2, ...; and a Request that saw only 429s, each answered
\* nil by RetryBackoffFunc, and then an acceptable status returns nil after
\* as many invocations as there were 429s.
C25_BackoffThenSuccess ==
    /\ [][\A p \in Procs :
            /\ (Answered429(p) /\ RetryBackoffFunc /\ state[p].retries < Ceiling) =>
                  BackoffInvoked(p)
            /\ (BackoffInvoked(p) /\ calls[p].retryFunc = 0) =>
                  state'[p].retries = calls'[p].backoff]_vars
    /\ [](\A p \in Procs :
            (/\ op[p] = "Request" /\ pc[p] = "done"
             /\ calls[p].dispatch = calls[p].backoff + 1
             /\ calls[p].last \in okc
             /\ ~JSONResponse \/ calls[p].last = StatusNoContent) =>
                /\ IsNil(result[p])
                /\ state[p].retries = calls[p].backoff)

\* Two 429s, each followed by a RetryBackoffFunc that answered nil, then
\* 200: nil after three dispatches and two backoffs, under the default
\* ceiling.
C25_Witness ==
    \E p \in Procs :
        /\ MaxBackoffRetries = 0
        /\ op[p] = "Request" /\ pc[p] = "done" /\ IsNil(result[p])
        /\ calls[p].dispatch = 3 /\ calls[p].backoff = 2
        /\ state[p].retries = 2
        /\ calls[p].last = StatusOK

\* Goroutine p dispatched in this step and got a transport error or a
\* status that is neither acceptable nor 401, 429 or 498.
FailedGeneric(p) ==
    /\ calls'[p].dispatch = calls[p].dispatch + 1
    /\ calls'[p].last \in {TransportError, StatusServerError}

\* What Request returns when its innermost doRequest returns e: e, held by
\* an ErrErrorAfterReauthentication when the request has reauthenticated.
Surfaced(p, e) ==
    IF state[p].hasReauthenticated THEN ErrErrorAfterReauthentication(e) ELSE e

C27_BodiesDrainedAndClosed ==
    \A p \in Procs :
        (op[p] = "Request" /\ pc[p] = "done") =>
            /\ ~bodies[p].undrained
            /\ bodies[p].open =>
                  /\ KeepResponseBody
                  /\ IsNil(result[p])
                  /\ calls[p].last \in okc

\* The statuses accepted by default for each method.
ExpectedDefault ==
    [m \in Methods |->
        CASE m = "GET" -> {200}
          [] m = "HEAD" -> {200}
          [] m = "POST" -> {201, 202}
          [] m = "PUT" -> {201, 202}
          [] m = "PATCH" -> {200, 202, 204}
          [] m = "DELETE" -> {202, 204}
          [] OTHER -> {}]

Accepted(code) ==
    IF OkCodes # NilOkCodes THEN code \in OkCodes
    ELSE code \in ExpectedDefault[method]

\* C28: a response is accepted iff its status is in the caller's OkCodes
\* when the caller gave a list, and in the default set of the method
\* otherwise.  Request returns nil only for an accepted status, and for each
\* one unless its body failed to decode; a status that is not accepted makes
\* an unexpected-response error of that status, which is what comes back
\* when neither RetryFunc nor a reauthentication takes it.
C28_AcceptedStatuses ==
    \A p \in Procs :
        (Dispatched(p) /\ calls[p].last # TransportError) =>
            /\ IsNil(result[p]) => Accepted(calls[p].last)
            /\ Accepted(calls[p].last) =>
                  (IsNil(result[p]) \/ calls[p].decoded = "failed")
            /\ (~Accepted(calls[p].last) /\ ~RetryFunc /\ calls[p].reauth = 0) =>
                  result[p] = ErrUnexpectedResponseCode(calls[p].last)

\* A PUT with no OkCodes was answered 200, which PATCH accepts and PUT does
\* not.
C28_Witness ==
    \E p \in Procs :
        /\ method = "PUT" /\ OkCodes = NilOkCodes
        /\ Dispatched(p) /\ calls[p].last = StatusOK
        /\ result[p] = ErrUnexpectedResponseCode(StatusOK)

\* C29: Request returns a nil error only when it dispatched, the last
\* response it obtained has an accepted status and, with a JSONResponse and
\* a status other than 204, the body of that response was decoded; in every
\* other outcome the error is not nil.
C29_NilOnlyOnSuccess ==
    \A p \in Procs :
        (op[p] = "Request" /\ pc[p] = "done" /\ IsNil(result[p])) =>
            /\ calls[p].dispatch >= 1
            /\ calls[p].last # TransportError
            /\ Accepted(calls[p].last)
            /\ (JSONResponse /\ calls[p].last # StatusNoContent) =>
                  calls[p].decoded = "ok"
            /\ (~JSONResponse \/ calls[p].last = StatusNoContent) =>
                  calls[p].decoded = "none"

\* With a JSONResponse, an accepted 204 ended the Request with nil and
\* nothing was decoded.
C29_Witness ==
    \E p \in Procs :
        /\ JSONResponse
        /\ op[p] = "Request" /\ pc[p] = "done" /\ IsNil(result[p])
        /\ calls[p].last = StatusNoContent
        /\ calls[p].decoded = "none"

\* Goroutine p dispatched in this step and the accepted body it got failed
\* to decode.
DecodeFailed(p) ==
    /\ calls'[p].dispatch = calls[p].dispatch + 1
    /\ calls'[p].decoded = "failed"

NoContentAccepted(p) ==
    /\ calls'[p].dispatch = calls[p].dispatch + 1
    /\ calls'[p].last = StatusNoContent
    /\ Accepted(StatusNoContent)
    /\ JSONResponse

RetryFuncInvoked(p) == calls'[p].retryFunc = calls[p].retryFunc + 1

\* C32: the failCount handed to RetryFunc is the number of times the
\* request has failed so far in the logical call, every dispatch up to the
\* invocation having failed: earlier 401 responses answered by a
\* reauthentication and earlier rate-limit responses included.
C32_FailCountIsFailures ==
    [][\A p \in Procs :
          RetryFuncInvoked(p) => state'[p].retries = calls'[p].dispatch
      ]_vars

\* What the code counts: the invocations of the two hooks.
C32_FailCountIsHookCalls ==
    [][\A p \in Procs :
          RetryFuncInvoked(p) =>
              state'[p].retries = calls'[p].retryFunc + calls'[p].backoff
      ]_vars

\* C33: with RetryFunc configured, a Request that dispatched and ends with
\* an error has had its RetryFunc invoked: whatever the failure (transport
\* error, unexpected status, failed reauthentication, failed backoff,
\* failure after reauthentication, decode failure), RetryFunc is called
\* before the error is returned.
C33_FailureReachesRetryFunc ==
    \A p \in Procs :
        ( /\ RetryFunc
          /\ op[p] = "Request" /\ pc[p] = "done"
          /\ calls[p].dispatch >= 1
          /\ ~IsNil(result[p]) )
        => calls[p].retryFunc >= 1

\* Goroutine q waits for future f: in Reauthenticate or in
\* AuthenticatedHeaders.
Waits(q, f) ==
    \/ pc[q] = "rwait" /\ myOngoing[q] = f
    \/ pc[q] = "hdrwait" /\ hdrOngoing[q] = f

\* Goroutine p owns an attempt whose ReauthFunc has returned (or was
\* skipped) and has not yet run the closing section.
OwnerReturned(p) == pc[p] = "finish"

\* The attempt goroutine p owns is over: its future is completed and is
\* not the marker.
AttemptOver(p) ==
    /\ future[p] # NoFuture
    /\ futures[future[p]].done
    /\ ongoing # future[p]

\* The marker, when installed, is a future that is still running.
MarkerRuns == ongoing # NoFuture => ~futures[ongoing].done

\* C34: once the owner's ReauthFunc has returned, its future is eventually
\* completed with the marker cleared, and every goroutine waiting for that
\* future eventually leaves its wait; the marker never designates a
\* completed future, so a Reauthenticate that reads the marker after the
\* attempt finds none of it and can install its own.
C34_AttemptCompletes ==
    /\ []MarkerRuns
    /\ \A p \in Procs :
          OwnerReturned(p) ~> AttemptOver(p)
    /\ \A p \in Procs : \A q \in Procs :
          (OwnerReturned(p) /\ Waits(q, future[p])) ~> ~Waits(q, future[p])
    /\ [][\A p \in Procs :
            (pc[p] = "reauth" /\ pc'[p] # "reauth" /\ ongoing = NoFuture)
            => (ongoing' = future'[p] /\ ongoing' = Len(futures) + 1
                /\ pc'[p] = "compare")]_vars

\* A Request waited in AuthenticatedHeaders for the first attempt, which has
\* completed; the 401 it then got made it the owner of a second attempt.
C34_Witness ==
    \E q \in Procs :
        /\ Len(futures) = 2 /\ futures[1].done
        /\ hdrOngoing[q] = 1 /\ future[q] = 2 /\ ongoing = 2
        /\ pc[q] = "rfunc"

\* Goroutine p is inside a call.
InCall(p) == pc[p] \notin {"idle", "done"}

\* Goroutine p is inside ReauthFunc.
RunsReauthFunc(p) == pc[p] \in {"rfunc", "tacsend", "tacstore", "tacwrite"}

\* C35: while ReauthFunc issues a request through a throwaway clone and
\* then writes the client's token store, with other goroutines calling
\* Request (and so Token) and Reauthenticate, no state is deadlocked:
\* whenever a goroutine is inside a call, some goroutine inside a call can
\* take a step.  The owner holds reauthmut at no point of ReauthFunc, and
\* holds mut only for the write it makes itself.
C35_OwnerNeverDeadlocks ==
    /\ (\E p \in Procs : InCall(p)) =>
           \E p \in Procs : InCall(p) /\ ENABLED OwnerStep(p)
    /\ \A p \in Procs :
          RunsReauthFunc(p) =>
              /\ ~holdsReauthmut(p)
              /\ p \notin mutR["client"]
              /\ mutW["client"] = p <=> pc[p] = "tacwrite"

\* The owner, inside ReauthFunc, holds mut for its write while another
\* goroutine's Request is about to read the token.
C35_Witness ==
    \E p \in Procs : \E q \in Procs :
        /\ pc[p] = "tacwrite" /\ mutW["client"] = p /\ ongoing = future[p]
        /\ op[q] = "Request" /\ pc[q] = "token"
        /\ ~ENABLED OwnerStep(q)

\* Goroutine p, in CopyTokenFrom, holds the write lock of its receiver and
\* cannot take the read lock of the other client.
CopyBlocked(p) ==
    /\ op[p] = "CopyTokenFrom" /\ pc[p] = "rlockother"
    /\ mutW[mutOf(recv[p])] = p
    /\ ~ENABLED OtherRLock(p)

\* C36: with two clients whose token locks are distinct, concurrent
\* A.CopyTokenFrom(B) and B.CopyTokenFrom(A) never reach a state in which
\* each holds its own write lock and waits for the read lock of the other.
C36_CrossCopiesTerminate ==
    \A p \in Procs : \A q \in Procs :
        (p # q /\ tacMut = "own" /\ recv[p] # recv[q])
        => ~(CopyBlocked(p) /\ CopyBlocked(q))

\* C37: without RetryFunc a Request dispatches at most K + 2 times, K being
\* MaxBackoffRetries or 60 when that is 0: the first dispatch, at most one
\* retry after a reauthentication and at most K retries after a backoff;
\* and a step of it that is not a dispatch, a hook or a reauthentication
\* in progress is always enabled, so it ends once the hooks have returned.
C37_DispatchesBounded ==
    \A p \in Procs :
        (~RetryFunc /\ op[p] = "Request") =>
            /\ calls[p].dispatch <= Ceiling + 2
            /\ calls[p].dispatch <= 1 + calls[p].backoff + calls[p].reauth
            /\ calls[p].reauth <= 1
            /\ calls[p].backoff <= Ceiling
            /\ pc[p] # "done" => ENABLED NextSeq

\* A Request without RetryFunc and with a ceiling of 1 has finished after
\* K + 2 = 3 dispatches: one backoff and one reauthentication.
C37_Witness ==
    \E p \in Procs :
        /\ ~RetryFunc /\ MaxBackoffRetries = 1
        /\ op[p] = "Request" /\ pc[p] = "done"
        /\ calls[p].dispatch = Ceiling + 2
        /\ calls[p].backoff = 1 /\ calls[p].reauth = 1

\* Goroutine p runs the entry of Reauthenticate in this step.
EntersReauthenticate(p) == pc[p] = "reauth" /\ pc'[p] # "reauth"

\* C38: on a client without locks Reauthenticate calls ReauthFunc on every
\* call, whatever previousToken and the current token, and returns what it
\* returned; no marker is ever installed and no goroutine waits or
\* compares.  With ReauthFunc nil it returns nil and changes nothing.
C38_NoLocksNoCoordination ==
    /\ [](~useTokenLock =>
            /\ ongoing = NoFuture /\ futures = <<>> /\ attempts = <<>>
            /\ \A p \in Procs :
                  pc[p] \notin {"hdrwait", "rwait", "compare", "finish"})
    /\ [][\A p \in Procs :
            (~useTokenLock /\ EntersReauthenticate(p)) =>
                IF ReauthFunc
                THEN /\ pc'[p] = "rfunc"
                     /\ reauthFuncCalls' = reauthFuncCalls + 1
                     /\ calls'[p].reauthFunc = calls[p].reauthFunc + 1
                ELSE /\ pc'[p] = "rreturn" /\ IsNil(err'[p])
                     /\ UNCHANGED <<storeVars, reauthVars>>
       ]_vars
    /\ [][\A p \in Procs :
            (~useTokenLock /\ pc[p] = "rfunc" /\ pc'[p] # "rfunc") =>
                /\ pc'[p] = "rreturn"
                /\ err'[p] \in {ErrNil, ErrReauthFunc(reauthFuncCalls)}
       ]_vars

\* Without locks, a Reauthenticate called with a previous token that is not
\* the current one has invoked ReauthFunc.
C38_Witness ==
    \E p \in Procs :
        /\ ~useTokenLock /\ ReauthFunc
        /\ op[p] = "Reauthenticate" /\ pc[p] = "rfunc"
        /\ previousToken[p] = StaleToken /\ TokenID = NoToken
        /\ calls[p].reauthFunc = 1 /\ ongoing = NoFuture

\* The four fields of the two stores.
bothStores == <<TokenID, authResult, tacTokenID, tacAuthResult>>

\* Goroutine p called SetTokenAndAuthResult with a result whose
\* ExtractTokenID fails.
ExtractFails(p) ==
    op[p] = "SetTokenAndAuthResult" /\ arg[p][2] = BadAuthResult

\* C39: SetTokenAndAuthResult(r) whose ExtractTokenID fails returns that
\* error without taking the lock and without writing TokenID or
\* authResult; with r nil it stores the empty token and a nil result;
\* SetToken(t) stores t and a nil result; and GetAuthResult returns the
\* authResult that is stored, so nil after a SetToken.
C39_StoreWrites ==
    /\ [](\A p \in Procs :
            /\ ExtractFails(p) =>
                  /\ pc[p] = "ret" /\ result[p] = ErrExtractTokenID
                  /\ \A l \in Locks : mutW[l] # p /\ p \notin mutR[l]
            /\ (pc[p] = "unlock" /\ op[p] = "SetTokenAndAuthResult"
                   /\ arg[p] = <<NoToken, NilAuthResult>>) =>
                  (tokenOf(recv[p]) = NoToken /\ authOf(recv[p]) = NilAuthResult)
            /\ (pc[p] = "unlock" /\ op[p] = "SetToken") =>
                  (tokenOf(recv[p]) = arg[p][1] /\ authOf(recv[p]) = NilAuthResult))
    /\ [][\A p \in Procs :
            /\ (ExtractFails(p) /\ pc'[p] # pc[p]) => UNCHANGED bothStores
            /\ (ExtractFails(p)' /\ pc'[p] # pc[p]) => UNCHANGED bothStores
            /\ (op[p] = "GetAuthResult" /\ pc[p] = "read" /\ pc'[p] = "ret") =>
                  seen'[p] = authOf(recv[p])
       ]_vars

\* SetToken has replaced the client's token and cleared its authentication
\* result, while a SetTokenAndAuthResult whose extraction failed is
\* returning its error.
C39_Witness ==
    \E p \in Procs : \E q \in Procs :
        /\ op[p] = "SetToken" /\ recv[p] = "client" /\ pc[p] = "unlock"
        /\ TokenID = StaleToken + 1 /\ authResult = NilAuthResult
        /\ ExtractFails(q) /\ pc[q] = "ret"
        /\ result[q] = ErrExtractTokenID

\* Goroutine q waited in AuthenticatedHeaders for an attempt that failed.
WaitedForFailure(q) ==
    /\ hdrOngoing[q] # NoFuture
    /\ futures[hdrOngoing[q]].done
    /\ ~IsNil(futures[hdrOngoing[q]].err)

\* C40: a Request that waited in AuthenticatedHeaders for an attempt leaves
\* the wait to read the token whatever the attempt's error, its own result
\* untouched; a failed attempt has left the store as it found it; after a
\* failed attempt the Request sets the token it reads from the store as
\* X-Auth-Token and goes on to dispatch with it.
C40_WaiterSurvivesFailure ==
    /\ [][\A q \in Procs :
            /\ (pc[q] = "hdrwait" /\ pc'[q] # "hdrwait") =>
                  /\ pc'[q] = "token"
                  /\ result'[q] = result[q] /\ err'[q] = err[q]
                  /\ UNCHANGED storeVars
            /\ (pc[q] = "token" /\ pc'[q] # "token" /\ WaitedForFailure(q)) =>
                  /\ pc'[q] = "send"
                  /\ prereqtok'[q] = TokenID
                  /\ reqHeader'[q]["X-Auth-Token"] = <<"token", TokenID>>
       ]_vars
    /\ [](\A f \in 1..Len(attempts) :
            (attempts[f].finished /\ Failed(attempts[f])) =>
                attempts[f].after = attempts[f].before)

\* A Request waited for the first attempt, which failed; it was dispatched
\* with the token that attempt left in place, was answered 401 and now owns
\* a second attempt, inside ReauthFunc.
C40_Witness ==
    \E q \in Procs :
        /\ op[q] = "Request" /\ WaitedForFailure(q) /\ hdrOngoing[q] = 1
        /\ calls[q].dispatch = 1 /\ calls[q].last = StatusUnauthorized
        /\ prereqtok[q] = attempts[1].before[1]
        /\ Len(futures) = 2 /\ future[q] = 2 /\ ongoing = 2
        /\ pc[q] = "rfunc"

====
